---- MODULE Spec2Model ----
(***************************************************************************)
(* The live-update layer of the TorrentEdge dashboard: the shared,         *)
(* reference-counted socket of hooks/useSocket.ts, the component tree of   *)
(* App that mounts and unmounts its holders, the snapshot polling and the  *)
(* progress merge of pages/Dashboard.tsx, and the speed-sample history of  *)
(* components/SpeedGraph.tsx.                                              *)
(*                                                                         *)
(* Everything runs on one event loop, so every action below is one task    *)
(* of that loop (an effect, a cleanup, an event handler, a promise         *)
(* continuation) run to completion.                                        *)
(***************************************************************************)
EXTENDS Integers, Sequences, FiniteSets, TLC

Null == "null"

\* fetchData calls that may be unsettled at the same time; the Dashboard is not
\* opened while that many are.
MaxInFlight == 2
\* the same for the SpeedGraph's fetchHistory calls
MaxHistInFlight == 1
\* stats:speed samples the server pushes: in the runs with disconnects and
\* batched events, and in the runs of a calm connection
MaxTs == 3
RingLen == 62
\* the connection is lost only while the history is no longer than this
MaxDropLen == 2
\* io(..., {reconnection: true, reconnectionAttempts: 10, ...})
reconnectionAttempts == 10
\* the history holds the last 60 samples
HistoryCap == 60

\* The three callers of the socket hooks: Navbar (useConnectionStatus ->
\* useSpeedSocket), SpeedGraph (useSpeedSocket), Dashboard (useSocket).
Holders == {"navbar", "speedGraph", "dashboard"}
SpeedHolders == {"navbar", "speedGraph"}

VARIABLES
  token,            \* localStorage 'te_token' is set
  isAuthenticated,  \* App state
  currentPage,      \* App state
  healthStatus,     \* App state
  reload,           \* window.location.reload() was called and the page is not yet replaced
  hooked,           \* holders whose socket-hook effect has run and is not cleaned up
  acquired,         \* holders whose effect got a socket, i.e. returned a cleanup
  sock,             \* module-level state of useSocket.ts and of the socket object
  isConnected,      \* useSpeedSocket's isConnected state, per holder
  wasEverConnected, \* useConnectionStatus's wasEverConnected state (the Navbar's)
  last,             \* the step that led here: its handler, its input, what it logged or notified
  polling,          \* Dashboard: the polling effect has run (its interval is set)
  torrents,         \* Dashboard state
  stats,            \* Dashboard state
  loading,          \* Dashboard state
  fetches,          \* fetchData calls whose Promise.all has not settled, oldest first
  statusFilter,     \* Dashboard state
  searchQuery,      \* Dashboard state: a string, as the sequence of its characters
  sortField,        \* Dashboard state
  sortDir,          \* Dashboard state
  uploading,        \* Dashboard state
  uploads,          \* the upload batches under way (handleFileUpload, handleDrop), oldest first
  requests,         \* the command requests in flight (add magnet, pause, resume, delete)
  dialog,           \* ConfirmProvider's state: <<the delete dialog that is open>>; <<>> is null
  graphOn,          \* SpeedGraph: its own effects have run
  history,          \* SpeedGraph state
  graphLoading,     \* SpeedGraph state (loading)
  graphError,       \* SpeedGraph state (error)
  latestSpeed,      \* useSpeedSocket's latestSpeed state of the SpeedGraph: <<>> is null
  committed,        \* latestSpeed and isConnected as the SpeedGraph's last commit saw them
  histFetches,      \* fetchHistory calls in flight, oldest first
  nextTs            \* the number of stats:speed samples the server pushed so far

appVars == <<token, isAuthenticated, currentPage, healthStatus, reload>>
sockVars == <<hooked, acquired, sock, isConnected, wasEverConnected>>
dashVars == <<polling, torrents, stats, loading, fetches>>
listVars == <<statusFilter, searchQuery, sortField, sortDir>>
cmdVars == <<uploading, uploads, requests, dialog>>
graphVars == <<graphOn, history, graphLoading, graphError, latestSpeed, committed,
               histFetches, nextTs>>
vars == <<appVars, sockVars, last, dashVars, listVars, cmdVars, graphVars>>

\* What a step leaves in `last`.
Did(op, arg, out) == [op |-> op, arg |-> arg, out |-> out]
\* A step of the socket hooks or of App: it touches neither the Dashboard's nor
\* the SpeedGraph's state.
\* (the state of an unmounted Navbar's hook is discarded)
SockOnly(op) ==
  /\ last' = Did(op, Null, <<>>)
  /\ wasEverConnected' = (wasEverConnected /\ "navbar" \in hooked')
  /\ UNCHANGED <<dashVars, listVars, cmdVars, graphVars>>

----------------------------------------------------------------------------
(* hooks/useSocket.ts: the shared socket singleton *)

\* A JavaScript Set keeps its members in insertion order: a sequence without
\* repetitions.  add appends a value that is not a member, delete removes it,
\* forEach calls back once per member in that order (the sequence of the calls).
Elems(s) == {s[i] : i \in DOMAIN s}
setAdd(s, x) == IF x \in Elems(s) THEN s ELSE Append(s, x)
setDelete(s, x) == SelectSeq(s, LAMBDA y : y # x)
\* a forEach that visits the newest member first
forEach_Mutant_Reverse(s) == [i \in 1..Len(s) |-> s[Len(s) + 1 - i]]
forEach(s) == [i \in 1..Len(s) |-> s[i]]

\* sharedSocket/socketRefCount/speedListeners/connectListeners are the module
\* variables; connected and handlers are fields of the socket object
\* (socket.connected, the torrent:* handlers added with socket.on); attempts
\* and retrying are the state of the socket's reconnection (the reconnection
\* tries started since the last open, and whether a try is under way or
\* scheduled); live counts
\* the sockets made by io() and not yet closed by disconnect(); calls lists the
\* calls made on the socket API by the step that led to the state.
SockInit ==
  [ sharedSocket |-> Null, socketRefCount |-> 0,
    speedListeners |-> <<>>, connectListeners |-> <<>>,
    connected |-> FALSE, handlers |-> {}, live |-> 0, calls |-> <<>>,
    attempts |-> 0, retrying |-> FALSE ]

Begin(m) == [m EXCEPT !.calls = <<>>]

\* getSharedSocket(): null without a token; otherwise the socket, created
\* (disconnected, without torrent handlers) when there is none.
getSharedSocket(m, tok) ==
  IF ~tok THEN [socket |-> Null, state |-> m]
  ELSE IF m.sharedSocket = Null
       THEN [ socket |-> "socket",
              state |-> [m EXCEPT !.sharedSocket = "socket", !.connected = FALSE,
                                  !.attempts = 0, !.retrying = TRUE,
                                  !.handlers = {}, !.live = @ + 1,
                                  !.calls = Append(@, "io")] ]
       ELSE [socket |-> m.sharedSocket, state |-> m]

\* The connect listeners that socket.disconnect() reaches: disconnect() on a
\* connected socket fires its 'disconnect' event at once, whose handler calls
\* every connect listener with false.
ToldOnClose(m) ==
  IF m.socketRefCount - 1 <= 0 /\ m.sharedSocket # Null /\ m.connected
  THEN Elems(m.connectListeners) ELSE {}

\* a release that tests "< 0" instead of "<= 0"
releaseSharedSocket_Mutant_Strict(m) ==
  LET n == [m EXCEPT !.socketRefCount = @ - 1] IN
  IF n.socketRefCount < 0 /\ n.sharedSocket # Null
  THEN [n EXCEPT !.calls = @ \o <<"emit unsubscribe:all", "disconnect">>,
                 !.connected = FALSE, !.handlers = {}, !.live = @ - 1,
                 !.attempts = 0, !.retrying = FALSE,
                 !.sharedSocket = Null, !.socketRefCount = 0,
                 !.speedListeners = <<>>, !.connectListeners = <<>>]
  ELSE n

\* a release that disconnects before it emits
releaseSharedSocket_Mutant_DisconnectFirst(m) ==
  LET n == [m EXCEPT !.socketRefCount = @ - 1] IN
  IF n.socketRefCount <= 0 /\ n.sharedSocket # Null
  THEN [n EXCEPT !.calls = @ \o <<"disconnect", "emit unsubscribe:all">>,
                 !.connected = FALSE, !.handlers = {}, !.live = @ - 1,
                 !.attempts = 0, !.retrying = FALSE,
                 !.sharedSocket = Null, !.socketRefCount = 0,
                 !.speedListeners = <<>>, !.connectListeners = <<>>]
  ELSE n

\* releaseSharedSocket()
releaseSharedSocket(m) ==
  LET n == [m EXCEPT !.socketRefCount = @ - 1] IN
  IF n.socketRefCount <= 0 /\ n.sharedSocket # Null
  THEN [n EXCEPT !.calls = @ \o <<"emit unsubscribe:all", "disconnect">>,
                 !.connected = FALSE, !.handlers = {}, !.live = @ - 1,
                 !.attempts = 0, !.retrying = FALSE,
                 !.sharedSocket = Null, !.socketRefCount = 0,
                 !.speedListeners = <<>>, !.connectListeners = <<>>]
  ELSE n

----------------------------------------------------------------------------
(* App: which components are rendered *)

\* an App that keeps the Navbar on the retry screen
Rendered_Mutant_KeepNavbar ==
  {"navbar"} \cup
    (IF healthStatus # "error" /\ isAuthenticated /\ currentPage = "dashboard"
     THEN {"speedGraph", "dashboard"} ELSE {})

\* The holders App renders: nothing but the retry screen when the health
\* check failed, else the Navbar, and the Dashboard with its SpeedGraph when
\* authenticated and on the dashboard page.
Rendered ==
  IF healthStatus = "error" THEN {}
  ELSE {"navbar"} \cup
       (IF isAuthenticated /\ currentPage = "dashboard"
        THEN {"speedGraph", "dashboard"} ELSE {})

\* React runs the effects of one commit in a fixed order: cleanups of removed
\* components first (a parent before its children), then the effects of new
\* components (children before their parent, siblings in order).
MountOrder == <<"navbar", "speedGraph", "dashboard">>
UnmountOrder == <<"navbar", "dashboard", "speedGraph">>

FirstOf(order, S) ==
  order[CHOOSE i \in 1..Len(order) :
          order[i] \in S /\ \A j \in 1..(i - 1) : order[j] \notin S]

ToUnmount == hooked \ Rendered
ToMount == Rendered \ hooked
\* No effect of the current commit is still to run, and the page is not being
\* replaced: between the call of window.location.reload() and the new page no
\* further task of the old page is followed.
Settled == ToUnmount = {} /\ ToMount = {} /\ ~reload

----------------------------------------------------------------------------
(* hooks/useSocket.ts: the effects of the two hooks *)

MountTurn(h) == ToUnmount = {} /\ ToMount # {} /\ h = FirstOf(MountOrder, ToMount)
UnmountTurn(h) == ToUnmount # {} /\ h = FirstOf(UnmountOrder, ToUnmount)

\* useSpeedSocket's effect: take the socket, count the reference, copy
\* socket.connected into the state, register both listeners.  Without a token
\* the effect returns early and leaves no cleanup.
UseSpeedSocketEffect(h) ==
  /\ h \in SpeedHolders
  /\ MountTurn(h)
  /\ LET got == getSharedSocket(Begin(sock), token) IN
       IF got.socket = Null
       THEN /\ sock' = got.state
            /\ UNCHANGED <<acquired, isConnected>>
       ELSE /\ sock' = [got.state EXCEPT !.socketRefCount = @ + 1,
                                         !.speedListeners = setAdd(@, h),
                                         !.connectListeners = setAdd(@, h)]
            /\ acquired' = acquired \cup {h}
            /\ isConnected' = [isConnected EXCEPT ![h] = got.state.connected]
  /\ hooked' = hooked \cup {h}
  /\ UNCHANGED appVars
  /\ SockOnly("useSpeedSocket effect")

\* The body of the cleanup useSpeedSocket's effect returns: delete both
\* listeners, then releaseSharedSocket().
useSpeedSocketCleanup(m, h) ==
  releaseSharedSocket([m EXCEPT !.speedListeners = setDelete(@, h),
                                !.connectListeners = setDelete(@, h)])

\* The body of the cleanup useSocket's effect returns: socket.off for the five
\* handlers, then releaseSharedSocket().
useSocketCleanup(m) ==
  releaseSharedSocket([m EXCEPT !.handlers = @ \ {"dashboard"}])

\* The cleanup useSpeedSocket's effect returned (none when it returned early);
\* the unmounted component's state is discarded.
UseSpeedSocketCleanup(h) ==
  /\ h \in SpeedHolders
  /\ UnmountTurn(h)
  /\ IF h \in acquired
     THEN LET m == [Begin(sock) EXCEPT !.speedListeners = setDelete(@, h),
                                       !.connectListeners = setDelete(@, h)] IN
          /\ sock' = useSpeedSocketCleanup(Begin(sock), h)
          /\ isConnected' = [x \in SpeedHolders |->
                               IF x = h \/ x \in ToldOnClose(m)
                               THEN FALSE ELSE isConnected[x]]
     ELSE /\ sock' = Begin(sock)
          /\ isConnected' = [isConnected EXCEPT ![h] = FALSE]
  /\ acquired' = acquired \ {h}
  /\ hooked' = hooked \ {h}
  /\ UNCHANGED appVars
  /\ SockOnly("useSpeedSocket cleanup")

\* useSocket's effect as the Dashboard calls it (onProgress given, no
\* onSpeedUpdate, enableToasts): take the socket, count the reference, put the
\* five torrent:* handlers on the socket.
UseSocketEffect ==
  /\ MountTurn("dashboard")
  /\ LET got == getSharedSocket(Begin(sock), token) IN
       IF got.socket = Null
       THEN /\ sock' = got.state
            /\ UNCHANGED acquired
       ELSE /\ sock' = [got.state EXCEPT !.socketRefCount = @ + 1,
                                         !.handlers = @ \cup {"dashboard"}]
            /\ acquired' = acquired \cup {"dashboard"}
  /\ hooked' = hooked \cup {"dashboard"}
  /\ UNCHANGED <<appVars, isConnected>>
  /\ SockOnly("useSocket effect")

\* a cleanup that releases the socket but leaves its handlers on it
UseSocketCleanup_Mutant_KeepHandlers ==
  /\ UnmountTurn("dashboard")
  /\ IF "dashboard" \in acquired
     THEN /\ sock' = releaseSharedSocket(Begin(sock))
          /\ isConnected' = [x \in SpeedHolders |->
                               IF x \in ToldOnClose(sock) THEN FALSE ELSE isConnected[x]]
     ELSE /\ sock' = Begin(sock)
          /\ UNCHANGED isConnected
  /\ acquired' = acquired \ {"dashboard"}
  /\ hooked' = hooked \ {"dashboard"}
  /\ UNCHANGED appVars
  /\ SockOnly("useSocket cleanup")

\* The cleanup useSocket's effect returned: socket.off for the five handlers,
\* then releaseSharedSocket().
UseSocketCleanup ==
  /\ UnmountTurn("dashboard")
  /\ IF "dashboard" \in acquired
     THEN LET m == [Begin(sock) EXCEPT !.handlers = @ \ {"dashboard"}] IN
          /\ sock' = useSocketCleanup(Begin(sock))
          /\ isConnected' = [x \in SpeedHolders |->
                               IF x \in ToldOnClose(m) THEN FALSE ELSE isConnected[x]]
     ELSE /\ sock' = Begin(sock)
          /\ UNCHANGED isConnected
  /\ acquired' = acquired \ {"dashboard"}
  /\ hooked' = hooked \ {"dashboard"}
  /\ UNCHANGED appVars
  /\ SockOnly("useSocket cleanup")

----------------------------------------------------------------------------
(* the socket's own events, as the handlers of getSharedSocket see them *)

\* a connect handler that forgets the subscription
OnConnect_Mutant_NoSubscribe(m) == [m EXCEPT !.connected = TRUE, !.attempts = 0]

\* socket.on('connect'): emit 'subscribe:all', tell every connect listener true.
OnConnect(m) ==
  [m EXCEPT !.connected = TRUE, !.attempts = 0,
            !.calls = Append(@, "emit subscribe:all")]

\* The socket connects (the first time or on a reconnect): a try that is under
\* way succeeds.
SocketConnect ==
  /\ Settled
  /\ sock.sharedSocket # Null
  /\ ~sock.connected
  /\ sock.retrying
  /\ sock' = OnConnect(Begin(sock))
  /\ isConnected' = [x \in SpeedHolders |->
                       IF x \in Elems(sock.connectListeners) THEN TRUE ELSE isConnected[x]]
  /\ UNCHANGED <<appVars, hooked, acquired>>
  /\ SockOnly("connect")

\* socket.on('disconnect'): the transport is lost; tell every connect listener
\* false.  The first reconnection try is scheduled.
SocketDisconnect ==
  /\ Settled
  /\ sock.sharedSocket # Null
  /\ sock.connected
  /\ sock' = [Begin(sock) EXCEPT !.connected = FALSE, !.attempts = 1]
  /\ isConnected' = [x \in SpeedHolders |->
                       IF x \in Elems(sock.connectListeners) THEN FALSE ELSE isConnected[x]]
  /\ UNCHANGED <<appVars, hooked, acquired>>
  /\ SockOnly("disconnect")

\* a reconnection that never gives up
connectFailed_Mutant_Endless(m) ==
  [m EXCEPT !.attempts = @ + 1, !.calls = Append(@, "console.warn")]

\* A connection try fails: the 'connect_error' handler logs a warning.  With
\* reconnectionAttempts tries made the reconnection gives up, else the next
\* try is scheduled.
connectFailed(m) ==
  IF m.attempts >= reconnectionAttempts
  THEN [m EXCEPT !.retrying = FALSE, !.calls = Append(@, "console.warn")]
  ELSE [m EXCEPT !.attempts = @ + 1, !.calls = Append(@, "console.warn")]

\* socket.on('connect_error')
ConnectError ==
  /\ Settled
  /\ sock.sharedSocket # Null
  /\ ~sock.connected
  /\ sock.retrying
  /\ sock' = connectFailed(Begin(sock))
  /\ UNCHANGED <<appVars, hooked, acquired, isConnected>>
  /\ SockOnly("connect_error")

\* useConnectionStatus: the Navbar has rendered with isConnected true, and the
\* effect on [isConnected] sets wasEverConnected.
ConnectionStatusEffect ==
  /\ Settled
  /\ "navbar" \in hooked
  /\ isConnected["navbar"]
  /\ ~wasEverConnected
  /\ wasEverConnected' = TRUE
  /\ sock' = Begin(sock)
  /\ last' = Did("useConnectionStatus effect", Null, <<>>)
  /\ UNCHANGED <<appVars, hooked, acquired, isConnected, dashVars, listVars, cmdVars, graphVars>>

\* useConnectionStatus's showDisconnected, as the Navbar's next render computes it
showDisconnected == wasEverConnected /\ ~isConnected["navbar"]

----------------------------------------------------------------------------
(* App: login, logout, navigation, health check *)

\* handleAuthSuccess, called by the LoginPage
Login ==
  /\ Settled
  /\ healthStatus # "error"
  /\ ~isAuthenticated
  /\ token' = TRUE
  /\ isAuthenticated' = TRUE
  /\ sock' = Begin(sock)
  /\ UNCHANGED <<currentPage, healthStatus, reload, hooked, acquired, isConnected>>
  /\ SockOnly("handleAuthSuccess")

\* handleLogout, called from the Navbar or the MobileNav
Logout ==
  /\ Settled
  /\ healthStatus # "error"
  /\ isAuthenticated
  /\ token' = FALSE
  /\ isAuthenticated' = FALSE
  /\ sock' = Begin(sock)
  /\ UNCHANGED <<currentPage, healthStatus, reload, hooked, acquired, isConnected>>
  /\ SockOnly("handleLogout")

\* setCurrentPage, from the Navbar tabs or the MobileNav
Navigate(p) ==
  /\ Settled
  /\ healthStatus # "error"
  /\ isAuthenticated
  /\ p # currentPage
  /\ p = "dashboard" => Len(fetches) < MaxInFlight /\ Len(histFetches) < MaxHistInFlight
  /\ currentPage' = p
  /\ sock' = Begin(sock)
  /\ UNCHANGED <<token, isAuthenticated, healthStatus, reload, hooked, acquired, isConnected>>
  /\ SockOnly("setCurrentPage")

\* checkHealth settles (at mount and every 30 s): ok or error
HealthResult(r) ==
  /\ Settled
  /\ r # healthStatus
  /\ healthStatus' = r
  /\ sock' = Begin(sock)
  /\ UNCHANGED <<token, isAuthenticated, currentPage, reload, hooked, acquired, isConnected>>
  /\ SockOnly("checkHealth")

\* the retry screen's button: window.location.reload()
RetryButton ==
  /\ healthStatus = "error"
  /\ ToUnmount = {} /\ ToMount = {} /\ ~reload
  /\ reload' = TRUE
  /\ sock' = Begin(sock)
  /\ UNCHANGED <<token, isAuthenticated, currentPage, healthStatus, hooked, acquired,
                 isConnected>>
  /\ SockOnly("retry")

----------------------------------------------------------------------------
(* The connection manager and the component tree *)

\* A page load: the module state is fresh, App reads the stored token.
Init ==
  /\ token \in BOOLEAN
  /\ isAuthenticated = token
  /\ currentPage = "dashboard"
  /\ healthStatus = "loading"
  /\ reload = FALSE
  /\ hooked = {}
  /\ acquired = {}
  /\ sock = SockInit
  /\ isConnected = [h \in SpeedHolders |-> FALSE]
  /\ wasEverConnected = FALSE
  /\ last = Did("load", Null, <<>>)
  /\ polling = FALSE
  /\ torrents = <<>>
  /\ stats = Null
  /\ loading = TRUE
  /\ fetches = <<>>
  /\ statusFilter = "all"
  /\ searchQuery = <<>>
  /\ sortField = "added"
  /\ sortDir = "desc"
  /\ uploading = FALSE
  /\ uploads = <<>>
  /\ requests = <<>>
  /\ dialog = <<>>
  /\ graphOn = FALSE
  /\ history = <<>>
  /\ graphLoading = TRUE
  /\ graphError = Null
  /\ latestSpeed = <<>>
  /\ committed = [latestSpeed |-> <<>>, isConnected |-> FALSE]
  /\ histFetches = <<>>
  /\ nextTs = 0

Next ==
  \/ \E h \in SpeedHolders : UseSpeedSocketEffect(h)
  \/ \E h \in SpeedHolders : UseSpeedSocketCleanup(h)
  \/ UseSocketEffect
  \/ UseSocketCleanup
  \/ SocketConnect
  \/ SocketDisconnect
  \/ ConnectionStatusEffect
  \/ Login
  \/ Logout
  \/ \E p \in {"dashboard", "settings"} : Navigate(p)
  \/ \E r \in {"ok", "error"} : HealthResult(r)

Spec == Init /\ [][Next]_vars

----------------------------------------------------------------------------
(* Properties of the connection manager *)

Count(seq, x) == Cardinality({i \in 1..Len(seq) : seq[i] = x})

\* C1: at most one socket exists; socketRefCount is the number of holders that
\* acquired and have not released, never negative; the socket exists iff that
\* number is positive; io() is called exactly in the steps that take the count
\* from 0 to 1 and disconnect() exactly in the steps that take it to 0, once each.
C1_RefCountState ==
  /\ sock.live \in {0, 1}
  /\ sock.socketRefCount = Cardinality(acquired)
  /\ sock.socketRefCount >= 0
  /\ (sock.sharedSocket # Null) <=> (Cardinality(acquired) > 0)
  /\ (sock.live = 1) <=> (sock.sharedSocket # Null)

C1_RefCountStep ==
  /\ Count(sock'.calls, "io") =
       (IF sock.socketRefCount = 0 /\ sock'.socketRefCount = 1 THEN 1 ELSE 0)
  /\ Count(sock'.calls, "disconnect") =
       (IF sock.socketRefCount > 0 /\ sock'.socketRefCount = 0 THEN 1 ELSE 0)

C1_RefCounted == [](C1_RefCountState) /\ [][C1_RefCountStep]_vars

\* acquire, acquire, release: the Navbar never acquired (no token at page
\* load), SpeedGraph and Dashboard did after the login, the Dashboard released,
\* and the socket is still the one SpeedGraph opened.
C1_Witness ==
  /\ "navbar" \in hooked
  /\ acquired = {"speedGraph"}
  /\ sock.socketRefCount = 1
  /\ sock.sharedSocket # Null
  /\ sock.calls = <<>>

\* C6: a release that brings the count to 0 emits 'unsubscribe:all' and then
\* disconnects, clears the handle and leaves both registries empty; a release
\* that leaves the count above 0 makes no call on the socket, keeps the handle
\* and its connection, and removes from the registries the releasing holder's
\* listeners only.
Releasing == acquired' # acquired /\ acquired' \subseteq acquired

C6_ReleaseStep ==
  Releasing =>
    LET h == CHOOSE x \in acquired : x \notin acquired' IN
    IF sock'.socketRefCount = 0
    THEN /\ sock'.calls = <<"emit unsubscribe:all", "disconnect">>
         /\ sock'.sharedSocket = Null
         /\ sock'.speedListeners = <<>>
         /\ sock'.connectListeners = <<>>
    ELSE /\ sock'.calls = <<>>
         /\ sock'.sharedSocket = sock.sharedSocket
         /\ sock'.sharedSocket # Null
         /\ sock'.connected = sock.connected
         /\ sock'.live = sock.live
         /\ Elems(sock'.speedListeners) = Elems(sock.speedListeners) \ {h}
         /\ Elems(sock'.connectListeners) = Elems(sock.connectListeners) \ {h}
         /\ (acquired' \cap SpeedHolders) \subseteq Elems(sock'.speedListeners)
         /\ (acquired' \cap SpeedHolders) \subseteq Elems(sock'.connectListeners)

C6_Release == [][C6_ReleaseStep]_vars

\* the last holder has just released a connected socket
C6_Witness ==
  /\ sock.calls = <<"emit unsubscribe:all", "disconnect">>
  /\ sock.sharedSocket = Null
  /\ sock.socketRefCount = 0
  /\ hooked # {}

\* C7: 'subscribe:all' is emitted once in every step in which the socket goes
\* from not connected to connected, and in no other step: not when the socket
\* is created, not by a later acquire.
C7_SubscribeStep ==
  Count(sock'.calls, "emit subscribe:all") =
    (IF sock'.connected /\ ~sock.connected THEN 1 ELSE 0)

C7_Subscribe == [][C7_SubscribeStep]_vars

\* three holders share a socket that has just connected
C7_Witness ==
  /\ sock.calls = <<"emit subscribe:all">>
  /\ sock.connected
  /\ sock.socketRefCount = 3

----------------------------------------------------------------------------
(* pages/Dashboard.tsx: the collection, the snapshot fetch, the progress merge *)

\* JavaScript's undefined, as the value of a field an event does not carry
Undefined == -1

\* The entries the server's torrent list can hold.
A1 == [infoHash |-> "a", name |-> "alpha", size |-> 700, status |-> "downloading",
       progress |-> 40, downloadSpeed |-> 0, uploadSpeed |-> 512]
A2 == [infoHash |-> "a", name |-> "alpha", size |-> 700, status |-> "seeding",
       progress |-> 100, downloadSpeed |-> 0, uploadSpeed |-> 512]
B1 == [infoHash |-> "b", name |-> "beta", size |-> 300, status |-> "paused",
       progress |-> 40, downloadSpeed |-> 0, uploadSpeed |-> 0]
\* The lists GET /api/torrent can answer with, and the answers of GET /api/statistics.
Snapshots == {<<A1>>, <<A2, B1>>}
StatsValues == {"stats1", "stats2"}

\* torrent:progress events: a known or an unknown infoHash; uploadSpeed carried or not.
ProgressEvents ==
  { [infoHash |-> h, percentage |-> 55, downloadSpeed |-> 1024, uploadSpeed |-> u] :
      h \in {"a", "b", "c"}, u \in {256, Undefined} }

LifecycleEvents == {"torrent:added", "torrent:started", "torrent:completed", "torrent:error"}

\* a merge that adds an entry for an infoHash it does not know
onProgress_Mutant_Upsert(prev, data) ==
  IF \E i \in 1..Len(prev) : prev[i].infoHash = data.infoHash
  THEN [i \in 1..Len(prev) |->
          IF prev[i].infoHash = data.infoHash
          THEN [prev[i] EXCEPT !.progress = data.percentage,
                               !.downloadSpeed = data.downloadSpeed,
                               !.uploadSpeed = data.uploadSpeed]
          ELSE prev[i]]
  ELSE Append(prev, [infoHash |-> data.infoHash, name |-> "", size |-> 0,
                     status |-> "downloading", progress |-> data.percentage,
                     downloadSpeed |-> data.downloadSpeed,
                     uploadSpeed |-> data.uploadSpeed])

\* onProgress: prev.map(t => t.infoHash === data.infoHash
\*   ? {...t, progress: data.percentage, downloadSpeed: ..., uploadSpeed: ...} : t)
onProgress(prev, data) ==
  [i \in 1..Len(prev) |->
     IF prev[i].infoHash = data.infoHash
     THEN [prev[i] EXCEPT !.progress = data.percentage,
                          !.downloadSpeed = data.downloadSpeed,
                          !.uploadSpeed = data.uploadSpeed]
     ELSE prev[i]]

\* handleAdded, handleStarted, handleCompleted, handleError: a toast when
\* enableToasts, nothing else.
LifecycleToasts(kind, enableToasts) ==
  IF enableToasts
  THEN << CASE kind = "torrent:added"     -> "toast.addToast download"
            [] kind = "torrent:started"   -> "toast.info"
            [] kind = "torrent:completed" -> "toast.addToast success"
            [] kind = "torrent:error"     -> "toast.error" >>
  ELSE <<>>

\* services/api.ts.  getAuthHeaders: the Authorization header, present when a
\* token is stored.
NoAuth == "no Authorization header"

getAuthHeaders(tok) == IF tok THEN "Bearer te_token" ELSE NoAuth

Request(url, auth) == [url |-> url, authorization |-> auth]
\* torrentService.list() sends getAuthHeaders(); statsService.getGlobal() sends none.
FetchDataRequests(tok) ==
  << Request("GET /api/torrent", getAuthHeaders(tok)),
     Request("GET /api/statistics", NoAuth) >>
HistoryRequest(tok) == Request("GET /api/statistics/speed-history", getAuthHeaders(tok))

\* handleResponse: it first awaits response.json(), which throws when the body
\* is not JSON; then a response that is not ok throws, and with status 401 it
\* first removes the stored token and reloads the page.
handleResponse(r, tok) ==
  IF ~r.json
  THEN [token |-> tok, reload |-> FALSE, throws |-> TRUE, calls |-> <<>>]
  ELSE IF r.st = "ok"
  THEN [token |-> tok, reload |-> FALSE, throws |-> FALSE, calls |-> <<>>]
  ELSE IF r.code = 401
       THEN [token |-> FALSE, reload |-> TRUE, throws |-> TRUE,
             calls |-> <<"localStorage.removeItem te_token", "window.location.reload">>]
       ELSE [token |-> tok, reload |-> FALSE, throws |-> TRUE, calls |-> <<>>]

\* A request of a fetchData call: pending, or settled with ok or fail.
\* A fetchData call: its two requests, whether its Dashboard is still mounted,
\* and (history, kept for the properties) whether a call issued after it has
\* already stored its result.
Pending == [st |-> "pending", val |-> Null, code |-> 0, json |-> TRUE]
NewFetch ==
  [list |-> [st |-> "pending", val |-> <<>>, code |-> 0, json |-> TRUE],
   stats |-> Pending, live |-> TRUE, overtaken |-> FALSE]

\* the calls in flight once call i stored its result: those issued before it
\* are overtaken
Overtake(fs, i) ==
  [j \in 1..Len(fs) |-> IF j < i THEN [fs[j] EXCEPT !.overtaken = TRUE] ELSE fs[j]]

\* Promise.all settles when one request failed or both succeeded.
Settles(listR, statsR) ==
  \/ listR.st = "fail"
  \/ statsR.st = "fail"
  \/ listR.st = "ok" /\ statsR.st = "ok"

\* a continuation that stores each answer it has
fetchDataDone_Mutant_Partial(listR, statsR, cur) ==
  IF listR.st = "ok" /\ statsR.st = "ok"
  THEN [torrents |-> listR.val, stats |-> statsR.val, loading |-> FALSE, out |-> <<>>]
  ELSE [torrents |-> IF listR.st = "ok" THEN listR.val ELSE cur.torrents,
        stats |-> IF statsR.st = "ok" THEN statsR.val ELSE cur.stats,
        loading |-> FALSE, out |-> <<"console.error">>]

\* a snapshot that keeps the progress the push events gave to the entries it
\* already has
fetchDataDone_Mutant_KeepPushed(listR, statsR, cur) ==
  IF listR.st = "ok" /\ statsR.st = "ok"
  THEN [torrents |->
          [i \in 1..Len(listR.val) |->
             IF \E j \in 1..Len(cur.torrents) :
                  cur.torrents[j].infoHash = listR.val[i].infoHash
             THEN LET j == CHOOSE j \in 1..Len(cur.torrents) :
                             cur.torrents[j].infoHash = listR.val[i].infoHash IN
                  [listR.val[i] EXCEPT !.progress = cur.torrents[j].progress]
             ELSE listR.val[i]],
        stats |-> statsR.val, loading |-> FALSE, out |-> <<>>]
  ELSE [torrents |-> cur.torrents, stats |-> cur.stats, loading |-> FALSE,
        out |-> <<"console.error">>]

\* fetchData after its await: both answers stored, or the error logged; then
\* loading is false.
fetchDataDone(listR, statsR, cur) ==
  IF listR.st = "ok" /\ statsR.st = "ok"
  THEN [torrents |-> listR.val, stats |-> statsR.val, loading |-> FALSE, out |-> <<>>]
  ELSE [torrents |-> cur.torrents, stats |-> cur.stats, loading |-> FALSE,
        out |-> <<"console.error">>]

RemoveAt(seq, i) == SubSeq(seq, 1, i - 1) \o SubSeq(seq, i + 1, Len(seq))

\* The Dashboard's effects of the current commit have run.
DashSettled == polling = ("dashboard" \in Rendered)
DashQuiet == Settled /\ DashSettled /\ polling

DashOnly == UNCHANGED <<appVars, sockVars, graphVars>>

\* fetchData(): both requests leave at once.
StartFetch(op) ==
  /\ Len(fetches) < MaxInFlight
  /\ fetches' = Append(fetches, NewFetch)
  /\ last' = Did(op, Null, FetchDataRequests(token))

\* The polling effect: fetchData() and setInterval(fetchData, 5000).
PollingEffect ==
  /\ "dashboard" \in Rendered
  /\ ~polling
  /\ polling' = TRUE
  /\ StartFetch("polling effect")
  /\ UNCHANGED <<torrents, stats, loading>>
  /\ UNCHANGED <<listVars, cmdVars>>
  /\ DashOnly

\* The polling effect's cleanup: clearInterval.  The unmounted Dashboard's state
\* is discarded, and the fetches it started can no longer set state.
PollingCleanup ==
  /\ "dashboard" \notin Rendered
  /\ polling
  /\ polling' = FALSE
  /\ torrents' = <<>>
  /\ stats' = Null
  /\ loading' = TRUE
  /\ fetches' = [i \in 1..Len(fetches) |-> [fetches[i] EXCEPT !.live = FALSE]]
  /\ statusFilter' = "all"
  /\ searchQuery' = <<>>
  /\ sortField' = "added"
  /\ sortDir' = "desc"
  /\ uploading' = FALSE
  /\ UNCHANGED <<uploads, requests, dialog>>
  /\ last' = Did("polling cleanup", Null, <<>>)
  /\ DashOnly

\* an interval that polls only while the push channel is down
TimerTick_Mutant_Fallback ==
  /\ DashQuiet
  /\ ~sock.connected
  /\ StartFetch("interval")
  /\ UNCHANGED <<polling, torrents, stats, loading>>
  /\ UNCHANGED <<listVars, cmdVars>>
  /\ DashOnly

\* A tick of setInterval(fetchData, 5000).
TimerTick ==
  /\ DashQuiet
  /\ StartFetch("interval")
  /\ UNCHANGED <<polling, torrents, stats, loading>>
  /\ UNCHANGED <<listVars, cmdVars>>
  /\ DashOnly

\* The refresh button (or the R key): onClick={fetchData}.
Refresh ==
  /\ DashQuiet
  /\ StartFetch("refresh")
  /\ UNCHANGED <<polling, torrents, stats, loading>>
  /\ UNCHANGED <<listVars, cmdVars>>
  /\ DashOnly

\* One request of fetch i settles, with listR and statsR the two requests' new
\* states.  If that settles Promise.all, fetchData's continuation runs in the
\* same task; what the other request answers later reaches no state of the
\* Dashboard and is not followed.  State setters of an unmounted Dashboard do
\* nothing.
Respond(i, listR, statsR, r) ==
  LET f == fetches[i]
      cur == [torrents |-> torrents, stats |-> stats, loading |-> loading]
      handled == handleResponse(r, token)
      done == fetchDataDone(listR, statsR, cur)
      apply == IF f.live THEN done ELSE [cur EXCEPT !.out = done.out] IN
  /\ token' = handled.token
  /\ reload' = (reload \/ handled.reload)
  /\ IF Settles(listR, statsR)
     THEN /\ fetches' = RemoveAt(IF f.live /\ listR.st = "ok" /\ statsR.st = "ok"
                                  THEN Overtake(fetches, i) ELSE fetches, i)
          /\ torrents' = apply.torrents
          /\ stats' = apply.stats
          /\ loading' = apply.loading
          /\ last' = Did(IF listR.st = "ok" /\ statsR.st = "ok"
                         THEN "fetchData resolved" ELSE "fetchData rejected",
                         [list |-> listR, stats |-> statsR, live |-> f.live,
                          overtaken |-> f.overtaken, code |-> r.code, json |-> r.json],
                         handled.calls \o done.out)
     ELSE /\ fetches' = [fetches EXCEPT ![i] = [f EXCEPT !.list = listR, !.stats = statsR]]
          /\ UNCHANGED <<torrents, stats, loading>>
          /\ last' = Did("response", Null, <<>>)
  /\ UNCHANGED <<isAuthenticated, currentPage, healthStatus, sockVars, listVars, cmdVars, graphVars>>

\* GET /api/torrent of fetch i answers: a list, or a failure.
ListResponds(i, r) ==
  /\ Settled /\ DashSettled
  /\ i \in 1..Len(fetches)
  /\ fetches[i].list.st = "pending"
  /\ Respond(i, r, fetches[i].stats, r)
  /\ UNCHANGED polling

\* GET /api/statistics of fetch i answers: the stats, or a failure.
StatsResponds(i, r) ==
  /\ Settled /\ DashSettled
  /\ i \in 1..Len(fetches)
  /\ fetches[i].stats.st = "pending"
  /\ Respond(i, fetches[i].list, r, r)
  /\ UNCHANGED polling

\* The statuses of a failed response: 401, and one other; its body is JSON or
\* is not (an empty body, a proxy's error page).
FailureCodes == {401, 500}
ListAnswers ==
  {[st |-> "ok", val |-> v, code |-> 200, json |-> TRUE] : v \in Snapshots}
    \cup {[st |-> "fail", val |-> <<>>, code |-> c, json |-> j] :
            c \in FailureCodes, j \in BOOLEAN}
StatsAnswers ==
  {[st |-> "ok", val |-> v, code |-> 200, json |-> TRUE] : v \in StatsValues}
    \cup {[st |-> "fail", val |-> Null, code |-> c, json |-> j] :
            c \in FailureCodes, j \in BOOLEAN}

\* The page that window.location.reload() asked for replaces the old one: the
\* module state and every component are fresh, requests in flight are
\* dropped, the stored token is what it was.
PageReload ==
  /\ reload
  /\ reload' = FALSE
  /\ UNCHANGED token
  /\ isAuthenticated' = token
  /\ currentPage' = "dashboard"
  /\ healthStatus' = "loading"
  /\ hooked' = {}
  /\ acquired' = {}
  /\ sock' = SockInit
  /\ isConnected' = [h \in SpeedHolders |-> FALSE]
  /\ wasEverConnected' = FALSE
  /\ last' = Did("load", Null, <<>>)
  /\ polling' = FALSE
  /\ torrents' = <<>>
  /\ stats' = Null
  /\ loading' = TRUE
  /\ fetches' = <<>>
  /\ statusFilter' = "all"
  /\ searchQuery' = <<>>
  /\ sortField' = "added"
  /\ sortDir' = "desc"
  /\ uploading' = FALSE
  /\ uploads' = <<>>
  /\ requests' = <<>>
  /\ dialog' = <<>>
  /\ graphOn' = FALSE
  /\ history' = <<>>
  /\ graphLoading' = TRUE
  /\ graphError' = Null
  /\ latestSpeed' = <<>>
  /\ committed' = [latestSpeed |-> <<>>, isConnected |-> FALSE]
  /\ histFetches' = <<>>
  /\ nextTs' = 0

\* The server pushes torrent:progress; the Dashboard's handleProgress calls onProgress.
ProgressEvent(data) ==
  /\ DashQuiet
  /\ sock.connected
  /\ "dashboard" \in sock.handlers
  /\ torrents' = onProgress(torrents, data)
  /\ last' = Did("torrent:progress", data, <<>>)
  /\ UNCHANGED <<polling, stats, loading, fetches>>
  /\ UNCHANGED <<listVars, cmdVars>>
  /\ DashOnly

\* a torrent:added handler that also puts the new torrent into the list
LifecycleEvent_Mutant_Insert(kind) ==
  /\ DashQuiet
  /\ sock.connected
  /\ "dashboard" \in sock.handlers
  /\ last' = Did(kind, Null, LifecycleToasts(kind, TRUE))
  /\ torrents' = IF kind = "torrent:added" THEN Append(torrents, B1) ELSE torrents
  /\ UNCHANGED <<polling, stats, loading, fetches>>
  /\ UNCHANGED <<listVars, cmdVars>>
  /\ DashOnly

\* The server pushes a lifecycle event; the Dashboard passes enableToasts: true.
LifecycleEvent(kind) ==
  /\ DashQuiet
  /\ sock.connected
  /\ "dashboard" \in sock.handlers
  /\ last' = Did(kind, Null, LifecycleToasts(kind, TRUE))
  /\ UNCHANGED dashVars
  /\ UNCHANGED <<listVars, cmdVars>>
  /\ DashOnly

\* A page load with a stored token.
InitAuthed == Init /\ token

NextDash ==
  \/ \E h \in SpeedHolders : UseSpeedSocketEffect(h)
  \/ \E h \in SpeedHolders : UseSpeedSocketCleanup(h)
  \/ UseSocketEffect
  \/ UseSocketCleanup
  \/ PollingEffect
  \/ PollingCleanup
  \/ SocketConnect
  \/ SocketDisconnect
  \/ \E p \in {"dashboard", "settings"} : Navigate(p)
  \/ TimerTick
  \/ Refresh
  \/ \E i \in 1..MaxInFlight, r \in ListAnswers : ListResponds(i, r)
  \/ \E i \in 1..MaxInFlight, r \in StatsAnswers : StatsResponds(i, r)
  \/ \E data \in ProgressEvents : ProgressEvent(data)
  \/ \E kind \in LifecycleEvents : LifecycleEvent(kind)
  \/ PageReload

\* The Dashboard page of an authenticated session.
SpecDash == InitAuthed /\ [][NextDash]_vars

----------------------------------------------------------------------------
(* Properties of the Dashboard's reconciliation *)

Ids(list) == {list[i].infoHash : i \in 1..Len(list)}
Known(list, data) == data.infoHash \in Ids(list)
\* the value a field has after an event that carries v for it, or does not
Carried(v, old) == IF v = Undefined THEN old ELSE v

\* C2: a torrent:progress event for an infoHash of the collection changes, on
\* the matching entry, exactly the fields it carries; a field it does not carry
\* keeps its value, status, name and size keep theirs, every other entry and the
\* order are unchanged.
C2_FrameStep ==
  (last'.op = "torrent:progress" /\ Known(torrents, last'.arg)) =>
    LET d == last'.arg IN
    /\ Len(torrents') = Len(torrents)
    /\ \A i \in 1..Len(torrents) :
         torrents'[i] =
           IF torrents[i].infoHash = d.infoHash
           THEN [torrents[i] EXCEPT !.progress = Carried(d.percentage, @),
                                    !.downloadSpeed = Carried(d.downloadSpeed, @),
                                    !.uploadSpeed = Carried(d.uploadSpeed, @)]
           ELSE torrents[i]

C2_Frame == [][C2_FrameStep]_vars

\* C3: a torrent:progress event for an infoHash that is not in the collection
\* leaves the collection as it was, creates no entry, and logs or notifies nothing.
C3_DropStep ==
  (last'.op = "torrent:progress" /\ ~Known(torrents, last'.arg)) =>
    /\ torrents' = torrents
    /\ stats' = stats
    /\ loading' = loading
    /\ last'.out = <<>>

C3_Drop == [][C3_DropStep]_vars

\* an event for "c" has arrived while the collection held "a" and "b"
C3_Witness ==
  /\ last.op = "torrent:progress"
  /\ last.arg.infoHash = "c"
  /\ Ids(torrents) = {"a", "b"}

Starts == {"polling effect", "interval", "refresh"}

\* C8: fetchData sends both requests in one step; when both succeed the
\* collection and the stats become exactly the two answers; when one fails,
\* neither changes and one error is logged; either way loading ends false.
\* While the Dashboard stays mounted the stats change in no other step.
C8_FetchStep ==
  /\ last'.op \in Starts =>
       /\ fetches' = Append(fetches, NewFetch)
       /\ last'.out = FetchDataRequests(token)
  /\ (last'.op = "fetchData resolved" /\ last'.arg.live) =>
       /\ last'.arg.list.st = "ok" /\ last'.arg.stats.st = "ok"
       /\ torrents' = last'.arg.list.val
       /\ stats' = last'.arg.stats.val
       /\ loading' = FALSE
       /\ last'.out = <<>>
  /\ (last'.op = "fetchData rejected" /\ last'.arg.live) =>
       /\ last'.arg.list.st = "fail" \/ last'.arg.stats.st = "fail"
       /\ torrents' = torrents
       /\ stats' = stats
       /\ loading' = FALSE
       /\ last'.out[Len(last'.out)] = "console.error"
       /\ Count(last'.out, "console.error") = 1
  /\ (polling /\ polling' /\ stats' # stats) => last'.op = "fetchData resolved"

C8_AllOrNothing == [][C8_FetchStep]_vars

\* the list request succeeded, the stats request failed, and the collection
\* and the stats of the earlier snapshot are still shown
C8_Witness ==
  /\ last.op = "fetchData rejected"
  /\ last.arg.live
  /\ last.arg.list.st = "ok"
  /\ last.arg.list.val # torrents
  /\ torrents # <<>>
  /\ stats # Null
  /\ ~loading

\* C9: the polling effect starts a fetch when the Dashboard mounts, and a tick
\* of the interval can fire and start a fetch in every state of the mounted
\* Dashboard, whatever the socket's connection, the outcome of earlier fetches
\* and the fetches still in flight (up to MaxInFlight).
C9_Unconditional ==
  /\ last.op = "polling effect" =>
       fetches # <<>> /\ fetches[Len(fetches)] = NewFetch
  /\ (DashQuiet /\ Len(fetches) < MaxInFlight) =>
       ENABLED (TimerTick /\ fetches' = Append(fetches, NewFetch))

\* a tick has started a fetch although the socket is connected and an earlier
\* fetch is still in flight
C9_Witness ==
  /\ last.op = "interval"
  /\ sock.connected
  /\ Len(fetches) = 2
  /\ fetches[1].live

\* C10: a lifecycle event changes neither the collection nor the stats (nor
\* anything else of the Dashboard) and raises one notification; while the
\* Dashboard stays mounted, the infoHashes of the collection change only in a
\* step in which a snapshot fetch succeeds.
C10_LifecycleStep ==
  /\ last'.op \in LifecycleEvents =>
       /\ torrents' = torrents
       /\ stats' = stats
       /\ UNCHANGED <<polling, loading, fetches>>
       /\ Len(last'.out) = 1
  /\ (polling /\ polling' /\ Ids(torrents') # Ids(torrents)) =>
       last'.op = "fetchData resolved"

C10_Lifecycle == [][C10_LifecycleStep]_vars

\* torrent:added has arrived and the collection still holds "a" alone
C10_Witness ==
  /\ last.op = "torrent:added"
  /\ last.out = <<"toast.addToast download">>
  /\ Ids(torrents) = {"a"}

----------------------------------------------------------------------------
(* components/SpeedGraph.tsx: the speed-sample history *)

\* A sample is named by its timestamp.  The server pushes samples 1, 2, ...; at
\* the page load it already holds HistoryCap + 1 older ones (timestamps
\* -HistoryCap .. 0).
ServerHistory(n) == [i \in 1..(HistoryCap + 1 + n) |-> i - (HistoryCap + 1)]
LastK(seq, k) == IF k >= Len(seq) THEN seq ELSE SubSeq(seq, Len(seq) - k + 1, Len(seq))
\* The lengths of response.history: the client does not fix the server's maxSamples.
RespLens == {1, HistoryCap - 1, HistoryCap, HistoryCap + 1}
HistoryAnswers ==
  {[st |-> "ok", len |-> k, code |-> 200, json |-> TRUE] : k \in RespLens}
    \cup {[st |-> "fail", len |-> 0, code |-> c, json |-> j] :
            c \in FailureCodes, j \in BOOLEAN}

\* an append that drops the newest sample instead of the oldest
appendSample_Mutant_Pop(prev, sample) ==
  LET newHistory == Append(prev, sample) IN
  IF Len(newHistory) > HistoryCap
  THEN SubSeq(newHistory, 1, Len(newHistory) - 1) ELSE newHistory

\* setHistory(prev => ...): [...prev, latestSpeed], shift() once when longer than 60
appendSample(prev, sample) ==
  LET newHistory == Append(prev, sample) IN
  IF Len(newHistory) > HistoryCap THEN Tail(newHistory) ELSE newHistory

\* fetchHistory after its await: response.history replaces the history and the
\* error is cleared, or the error is set; then loading is false.
fetchHistoryDone(r, serverNow, cur) ==
  IF r.st = "ok"
  THEN [history |-> LastK(ServerHistory(serverNow), r.len), error |-> Null,
        loading |-> FALSE, out |-> <<>>]
  ELSE [history |-> cur.history, error |-> "Failed to fetch speed history",
        loading |-> FALSE, out |-> <<"console.error">>]

\* The SpeedGraph's own effects of the current commit have run.
GraphSettled == graphOn = ("speedGraph" \in Rendered)
GraphQuiet == Settled /\ GraphSettled /\ graphOn

GraphOnly == UNCHANGED <<appVars, sockVars, dashVars, listVars, cmdVars>>

\* The SpeedGraph's effects at mount, after its useSpeedSocket effect: the
\* initial fetchHistory(); the append effect finds latestSpeed null; the
\* fallback effect finds isConnected false (the first render's value) and sets
\* its interval.
GraphEffects ==
  /\ "speedGraph" \in Rendered
  /\ "speedGraph" \in hooked
  /\ ~graphOn
  /\ Len(histFetches) < MaxHistInFlight
  /\ graphOn' = TRUE
  /\ histFetches' = Append(histFetches, TRUE)
  /\ committed' = [latestSpeed |-> <<>>, isConnected |-> FALSE]
  /\ last' = Did("SpeedGraph effects", Null, <<HistoryRequest(token)>>)
  /\ UNCHANGED <<history, graphLoading, graphError, latestSpeed, nextTs>>
  /\ GraphOnly

\* The cleanups at unmount: clearInterval.  The SpeedGraph's state is discarded
\* and its fetches in flight can no longer set state.
GraphCleanup ==
  /\ "speedGraph" \notin Rendered
  /\ graphOn
  /\ graphOn' = FALSE
  /\ history' = <<>>
  /\ graphLoading' = TRUE
  /\ graphError' = Null
  /\ latestSpeed' = <<>>
  /\ committed' = [latestSpeed |-> <<>>, isConnected |-> FALSE]
  /\ histFetches' = [i \in 1..Len(histFetches) |-> FALSE]
  /\ last' = Did("SpeedGraph cleanup", Null, <<>>)
  /\ UNCHANGED nextTs
  /\ GraphOnly

\* The server pushes the next stats:speed sample; the socket's handler calls
\* every speed listener (out lists the calls), and the SpeedGraph's handleSpeed
\* sets latestSpeed.  Nothing is kept for a listener that registers later.
\* (The Navbar's hook instance has a latestSpeed state too, which nothing reads.)
SpeedEvent(maxTs) ==
  /\ Settled /\ GraphSettled
  /\ sock.sharedSocket # Null
  /\ sock.connected
  /\ nextTs < maxTs
  /\ nextTs' = nextTs + 1
  /\ LET called == forEach(sock.speedListeners) IN
       /\ latestSpeed' = IF "speedGraph" \in Elems(called)
                         THEN <<nextTs + 1>> ELSE latestSpeed
       /\ last' = Did("stats:speed", nextTs + 1, called)
  /\ UNCHANGED <<graphOn, history, graphLoading, graphError, committed, histFetches>>
  /\ GraphOnly

\* latestSpeed or isConnected changed since the SpeedGraph's last commit
Uncommitted ==
  committed # [latestSpeed |-> latestSpeed, isConnected |-> isConnected["speedGraph"]]

\* The SpeedGraph re-renders and its effects with changed dependencies run: the
\* append effect appends latestSpeed when there is one and isConnected holds;
\* the fallback effect sets or clears its interval by isConnected.
GraphCommit ==
  /\ GraphQuiet
  /\ Uncommitted
  /\ committed' = [latestSpeed |-> latestSpeed, isConnected |-> isConnected["speedGraph"]]
  /\ IF latestSpeed # <<>> /\ isConnected["speedGraph"]
     THEN /\ history' = appendSample(history, latestSpeed[1])
          /\ last' = Did("append", latestSpeed[1], <<>>)
     ELSE /\ UNCHANGED history
          /\ last' = Did("commit", Null, <<>>)
  /\ UNCHANGED <<graphOn, graphLoading, graphError, latestSpeed, histFetches, nextTs>>
  /\ GraphOnly

\* A tick of the fallback interval, which is set while isConnected is false.
HistoryPollTick ==
  /\ GraphQuiet
  /\ ~committed.isConnected
  /\ Len(histFetches) < MaxHistInFlight
  /\ histFetches' = Append(histFetches, TRUE)
  /\ last' = Did("fallback interval", Null, <<HistoryRequest(token)>>)
  /\ UNCHANGED <<graphOn, history, graphLoading, graphError, latestSpeed, committed, nextTs>>
  /\ GraphOnly

\* GET /api/statistics/speed-history of fetchHistory call i answers.
HistoryResponds(i, r) ==
  /\ Settled /\ GraphSettled
  /\ i \in 1..Len(histFetches)
  /\ LET cur == [history |-> history, error |-> graphError, loading |-> graphLoading,
                 out |-> <<>>]
         handled == handleResponse(r, token)
         done == fetchHistoryDone(r, nextTs, cur)
         apply == IF histFetches[i] THEN done ELSE cur IN
     /\ token' = handled.token
     /\ reload' = (reload \/ handled.reload)
     /\ history' = apply.history
     /\ graphError' = apply.error
     /\ graphLoading' = apply.loading
     /\ last' = Did(IF r.st = "ok" THEN "fetchHistory resolved" ELSE "fetchHistory rejected",
                    [live |-> histFetches[i], len |-> r.len, code |-> r.code,
                     json |-> r.json],
                    handled.calls \o done.out)
  /\ histFetches' = RemoveAt(histFetches, i)
  /\ UNCHANGED <<graphOn, latestSpeed, committed, nextTs>>
  /\ UNCHANGED <<isAuthenticated, currentPage, healthStatus, sockVars, dashVars, listVars, cmdVars>>

NextGraph ==
  \/ \E h \in SpeedHolders : UseSpeedSocketEffect(h)
  \/ \E h \in SpeedHolders : UseSpeedSocketCleanup(h)
  \/ UseSocketEffect
  \/ UseSocketCleanup
  \/ GraphEffects
  \/ GraphCleanup
  \/ SocketConnect
  \/ (Len(history) <= MaxDropLen /\ SocketDisconnect)
  \/ \E p \in {"dashboard", "settings"} : Navigate(p)
  \/ SpeedEvent(MaxTs)
  \/ GraphCommit
  \/ HistoryPollTick
  \/ \E i \in 1..MaxHistInFlight, r \in HistoryAnswers : HistoryResponds(i, r)
  \/ PageReload

\* The SpeedGraph of an authenticated session: a short stream of samples, with
\* events that arrive before the last one was rendered, navigation away from
\* the Dashboard and back, and a connection that is lost and restored while
\* the history is short.
SpecGraph == InitAuthed /\ [][NextGraph]_vars

NextGraphLong ==
  \/ \E h \in SpeedHolders : UseSpeedSocketEffect(h)
  \/ UseSocketEffect
  \/ GraphEffects
  \/ SocketConnect
  \/ (~Uncommitted /\ SpeedEvent(RingLen))
  \/ GraphCommit
  \/ HistoryPollTick
  \/ \E i \in 1..MaxHistInFlight, r \in HistoryAnswers : HistoryResponds(i, r)
  \/ PageReload

\* The SpeedGraph on a calm connection: the socket connects once and stays
\* connected, every sample is rendered before the next arrives, and the stream
\* is long enough to fill the history.
SpecGraphLong == InitAuthed /\ [][NextGraphLong]_vars

----------------------------------------------------------------------------
(* Properties of the speed-sample history *)

\* C4: the speed-sample history never holds more than 60 entries.
C4_Bounded == Len(history) <= HistoryCap

\* C5: an append to a history of 60 entries removes the oldest entry and keeps
\* the other 59 in their order, followed by the new sample; and no append looks
\* at more than the oldest entry: what it leaves is the old history, without
\* its first entry if that made it longer than 60, followed by the new sample.
C5_FifoStep ==
  last'.op = "append" =>
    /\ Len(history) = HistoryCap => history' = Append(Tail(history), last'.arg)
    /\ Len(history) < HistoryCap => history' = Append(history, last'.arg)

C5_Fifo == [][C5_FifoStep]_vars

\* samples 1..61 went into the empty history, which now holds 2..61
C5_Witness ==
  /\ last.op = "append"
  /\ last.arg = HistoryCap + 1
  /\ history = [i \in 1..HistoryCap |-> i + 1]

----------------------------------------------------------------------------
(* Properties of unmounting *)

FetchEnds == {"fetchData resolved", "fetchData rejected"}
HistoryEnds == {"fetchHistory resolved", "fetchHistory rejected"}
\* a holder's hook is cleaned up by this step (and the page is not replaced)
Unhooks(h) == h \in hooked /\ h \notin hooked' /\ last'.op # "load"

\* what unmounting guarantees whatever the late response is
C11_Cancelled ==
  /\ last'.op = "interval" => polling /\ "dashboard" \in hooked
  /\ last'.op = "fallback interval" => graphOn /\ "speedGraph" \in hooked
  /\ \A h \in Holders :
       Unhooks(h) =>
         /\ sock'.socketRefCount =
              (IF sock.socketRefCount - (IF h \in acquired THEN 1 ELSE 0) > 0
               THEN sock.socketRefCount - (IF h \in acquired THEN 1 ELSE 0) ELSE 0)
         /\ hooked' = hooked \ {h}
         /\ h \notin sock'.handlers
         /\ h \notin Elems(sock'.speedListeners)
         /\ h \notin Elems(sock'.connectListeners)
  /\ last'.op \in (LifecycleEvents \cup {"torrent:progress"}) =>
       "dashboard" \in hooked /\ "dashboard" \in sock.handlers
  /\ "dashboard" \notin hooked' => "dashboard" \notin sock'.handlers
  /\ \A h \in SpeedHolders :
       h \notin hooked' =>
         h \notin Elems(sock'.speedListeners) /\ h \notin Elems(sock'.connectListeners)

\* a response to a fetch of an unmounted view leaves the views' state alone
C11_LateViewState ==
  /\ (last'.op \in FetchEnds /\ ~last'.arg.live) =>
       UNCHANGED <<polling, torrents, stats, loading, sockVars, graphVars,
                   isAuthenticated, currentPage, healthStatus>>
  /\ (last'.op \in HistoryEnds /\ ~last'.arg.live) =>
       UNCHANGED <<graphOn, history, graphLoading, graphError, latestSpeed, committed,
                   sockVars, dashVars, isAuthenticated, currentPage, healthStatus>>

\* ... and leaves everything else alone, too
C11_LateNothing ==
  (last'.op \in (FetchEnds \cup HistoryEnds) /\ ~last'.arg.live) =>
    UNCHANGED <<token, reload>>

----------------------------------------------------------------------------
(* pages/Dashboard.tsx: filteredTorrents, the derived list *)

\* Strings are the sequences of their characters.
LowerOf(c) == CASE c = "A" -> "a" [] c = "B" -> "b" [] OTHER -> c
toLowerCase(str) == [i \in 1..Len(str) |-> LowerOf(str[i])]
includes(str, q) ==
  \E i \in 0..(Len(str) - Len(q)) : SubSeq(str, i + 1, i + Len(q)) = q
RECURSIVE trimStart(_)
trimStart(str) ==
  IF str # <<>> /\ Head(str) = " " THEN trimStart(Tail(str)) ELSE str
RECURSIVE trimEnd(_)
trimEnd(str) ==
  IF str # <<>> /\ str[Len(str)] = " "
  THEN trimEnd(SubSeq(str, 1, Len(str) - 1)) ELSE str
trim(str) == trimEnd(trimStart(str))

\* localeCompare: the letters decide, whatever their case; between strings
\* with the same letters the first difference of case decides, the lower case
\* first.  The result is negative, zero or positive.
LetterRank(c) == CASE LowerOf(c) = " " -> 0 [] LowerOf(c) = "a" -> 1
                   [] LowerOf(c) = "b" -> 2 [] OTHER -> 3
CaseRank(c) == IF LowerOf(c) = c THEN 0 ELSE 1
RECURSIVE CompareBy(_, _, _)
CompareBy(a, b, level) ==
  IF a = <<>> /\ b = <<>> THEN 0
  ELSE IF a = <<>> THEN -1
  ELSE IF b = <<>> THEN 1
  ELSE LET ra == IF level = "letter" THEN LetterRank(Head(a)) ELSE CaseRank(Head(a))
           rb == IF level = "letter" THEN LetterRank(Head(b)) ELSE CaseRank(Head(b)) IN
       IF ra # rb THEN ra - rb ELSE CompareBy(Tail(a), Tail(b), level)
localeCompare(a, b) ==
  LET letters == CompareBy(a, b, "letter") IN
  IF letters # 0 THEN letters ELSE CompareBy(a, b, "case")

\* x ?? 0 and x || 0 on numbers
OrZero(x) == IF x = Undefined \/ x = 0 THEN 0 ELSE x
\* new Date(x || 0).getTime(), with a date given as its time in ms
TimeOf(x) == OrZero(x)

StatusFilters == {"all", "downloading", "seeding", "paused", "completed", "error"}
SortFields == {"name", "size", "progress", "speed", "added"}

\* a 'completed' filter that goes by the status string
statusStep_Mutant_ByStatus(list, filter) ==
  IF filter = "all" THEN list ELSE SelectSeq(list, LAMBDA t : t.status = filter)

\* result.filter(...) of the status step
statusStep(list, filter) ==
  IF filter = "all" THEN list
  ELSE SelectSeq(list, LAMBDA t :
         IF filter = "completed" THEN OrZero(t.progress) >= 100
         ELSE t.status = filter)

\* result.filter(...) of the search step: the query is matched as typed,
\* lower-cased, when it is not blank
searchStep(list, query) ==
  IF trim(query) # <<>>
  THEN LET q == toLowerCase(query) IN
       SelectSeq(list, LAMBDA t :
         includes(toLowerCase(t.name), q) \/ includes(toLowerCase(t.infoHash), q))
  ELSE list

\* the comparator of result.sort(...)
compare(a, b, field, dir) ==
  LET cmp == CASE field = "name" -> localeCompare(a.name, b.name)
               [] field = "size" -> OrZero(a.size) - OrZero(b.size)
               [] field = "progress" -> OrZero(a.progress) - OrZero(b.progress)
               [] field = "speed" -> OrZero(a.downloadSpeed) - OrZero(b.downloadSpeed)
               [] field = "added" -> TimeOf(a.createdAt) - TimeOf(b.createdAt) IN
  IF dir = "asc" THEN cmp ELSE 0 - cmp

\* a descending sort that sorts ascending and reverses
sortStep_Mutant_Reverse(list, field, dir) ==
  LET RECURSIVE Insert(_, _)
      Insert(x, sorted) ==
        IF sorted = <<>> THEN <<x>>
        ELSE IF compare(x, Head(sorted), field, "asc") < 0 THEN <<x>> \o sorted
        ELSE <<Head(sorted)>> \o Insert(x, Tail(sorted))
      RECURSIVE Sorted(_, _)
      Sorted(rest, acc) ==
        IF rest = <<>> THEN acc ELSE Sorted(Tail(rest), Insert(Head(rest), acc))
      asc == Sorted(list, <<>>) IN
  IF dir = "asc" THEN asc ELSE [i \in 1..Len(asc) |-> asc[Len(asc) + 1 - i]]

\* Array.prototype.sort with that comparator: a stable sort, here by insertion
\* (an entry goes before the first entry it is less than).
sortStep(list, field, dir) ==
  LET RECURSIVE Insert(_, _)
      Insert(x, sorted) ==
        IF sorted = <<>> THEN <<x>>
        ELSE IF compare(x, Head(sorted), field, dir) < 0 THEN <<x>> \o sorted
        ELSE <<Head(sorted)>> \o Insert(x, Tail(sorted))
      RECURSIVE Sorted(_, _)
      Sorted(rest, acc) ==
        IF rest = <<>> THEN acc ELSE Sorted(Tail(rest), Insert(Head(rest), acc)) IN
  Sorted(list, <<>>)

\* a derived list that sorts the collection itself
derive_Mutant_InPlace(list, filter, query, field, dir) ==
  LET result == sortStep(searchStep(statusStep(list, filter), query), field, dir) IN
  [result |-> result, source |-> sortStep(list, field, dir)]

\* The useMemo body: a copy of the collection is filtered, searched and sorted;
\* source is the collection as the call leaves it.
derive(list, filter, query, field, dir) ==
  [result |-> sortStep(searchStep(statusStep(list, filter), query), field, dir),
   source |-> list]

filteredTorrents == derive(torrents, statusFilter, searchQuery, sortField, sortDir)

\* the tab an entry is counted under: the first branch of the else-if chain
\* that takes it, or none
countedUnder(t) ==
  IF OrZero(t.progress) >= 100 THEN "completed"
  ELSE IF t.status = "downloading" THEN "downloading"
  ELSE IF t.status = "seeding" THEN "seeding"
  ELSE IF t.status = "paused" THEN "paused"
  ELSE IF t.status = "error" THEN "error"
  ELSE "none"

\* statusCounts: the numbers on the status tabs
statusCounts(list) ==
  [f \in StatusFilters |->
     IF f = "all" THEN Len(list)
     ELSE Cardinality({i \in DOMAIN list : countedUnder(list[i]) = f})]

\* onClick={() => setStatusFilter(status)}
SetStatusFilter(f) ==
  /\ DashQuiet
  /\ f # statusFilter
  /\ statusFilter' = f
  /\ last' = Did("setStatusFilter", f, <<>>)
  /\ UNCHANGED <<searchQuery, sortField, sortDir, dashVars, cmdVars>>
  /\ DashOnly

\* onChange={(e) => setSearchQuery(e.target.value)}, and the clear button
SetSearchQuery(q) ==
  /\ DashQuiet
  /\ q # searchQuery
  /\ searchQuery' = q
  /\ last' = Did("setSearchQuery", q, <<>>)
  /\ UNCHANGED <<statusFilter, sortField, sortDir, dashVars, cmdVars>>
  /\ DashOnly

\* handleSort: the same column flips the direction, another column starts descending
HandleSort(field) ==
  /\ DashQuiet
  /\ IF sortField = field
     THEN /\ sortDir' = (IF sortDir = "asc" THEN "desc" ELSE "asc")
          /\ UNCHANGED sortField
     ELSE /\ sortField' = field
          /\ sortDir' = "desc"
  /\ last' = Did("handleSort", field, <<>>)
  /\ UNCHANGED <<statusFilter, searchQuery, dashVars, cmdVars>>
  /\ DashOnly

\* The entries of the collections the list is derived from: as types.ts
\* declares them (addedAt, no createdAt), and two that carry a createdAt as
\* well; sizes, progress and speeds that are equal, different or missing.
Entry(h, n, sz, st, p, d, added, created) ==
  [infoHash |-> h, name |-> n, size |-> sz, status |-> st, progress |-> p,
   downloadSpeed |-> d, uploadSpeed |-> 0, addedAt |-> added, createdAt |-> created]
E1 == Entry(<<"a", "1">>, <<"B", "a">>, 700, "seeding", 100, 0, 3, Undefined)
E2 == Entry(<<"b", "2">>, <<"a", "b">>, 300, "downloading", 40, 1024, 1, Undefined)
E3 == Entry(<<"c", "3">>, <<"A", "b">>, 300, "paused", 100, 512, 2, Undefined)
E4 == Entry(<<"d", "4">>, <<"b", " ", "a">>, Undefined, "completed", 40, Undefined, 4, 4)
E5 == Entry(<<"e", "5">>, <<"a">>, 500, "error", Undefined, 2048, 5, 5)
Entries == {E1, E2, E3, E4, E5}

\* the longest collection
MaxList == 3
Collections ==
  UNION { {c \in [1..n -> Entries] : \A i, j \in 1..n : i # j => c[i] # c[j]} : n \in 0..MaxList }
Queries == {<<>>, <<" ">>, <<"A">>, <<"a", "b">>, <<"a", " ">>, <<"3">>}

\* The Dashboard of an authenticated session, mounted and loaded, with any of
\* the collections.
InitList ==
  /\ token = TRUE
  /\ isAuthenticated = TRUE
  /\ currentPage = "dashboard"
  /\ healthStatus = "ok"
  /\ reload = FALSE
  /\ hooked = Holders
  /\ acquired = Holders
  /\ sock = [ sharedSocket |-> "socket", socketRefCount |-> 3,
              speedListeners |-> <<"navbar", "speedGraph">>,
              connectListeners |-> <<"navbar", "speedGraph">>,
              connected |-> TRUE, handlers |-> {"dashboard"}, live |-> 1, calls |-> <<>>,
              attempts |-> 0, retrying |-> TRUE ]
  /\ isConnected = [h \in SpeedHolders |-> TRUE]
  /\ wasEverConnected = TRUE
  /\ last = Did("loaded", Null, <<>>)
  /\ polling = TRUE
  /\ torrents \in Collections
  /\ stats = "stats1"
  /\ loading = FALSE
  /\ fetches = <<>>
  /\ statusFilter = "all"
  /\ searchQuery = <<>>
  /\ sortField = "added"
  /\ sortDir = "desc"
  /\ uploading = FALSE
  /\ uploads = <<>>
  /\ requests = <<>>
  /\ dialog = <<>>
  /\ graphOn = TRUE
  /\ history = <<>>
  /\ graphLoading = FALSE
  /\ graphError = "Failed to fetch speed history"
  /\ latestSpeed = <<>>
  /\ committed = [latestSpeed |-> <<>>, isConnected |-> TRUE]
  /\ histFetches = <<>>
  /\ nextTs = 0

NextList ==
  \/ \E f \in StatusFilters : SetStatusFilter(f)
  \/ \E q \in Queries : SetSearchQuery(q)
  \/ \E field \in SortFields : HandleSort(field)

SpecList == InitList /\ [][NextList]_vars

----------------------------------------------------------------------------
(* Properties of the derived list *)

Range(seq) == {seq[i] : i \in 1..Len(seq)}
\* the entries of list at the indices I, in the order of the list
KthOf(I, k) == CHOOSE i \in I : Cardinality({j \in I : j < i}) = k - 1
Restrict(list, I) == [k \in 1..Cardinality(I) |-> list[KthOf(I, k)]]
Reverse(seq) == [i \in 1..Len(seq) |-> seq[Len(seq) + 1 - i]]

\* C12: with the status filter 'completed' the status step returns the entries
\* whose progress is at least 100, whatever their status, in the order of the
\* collection; with a blank search these are the entries of the derived list.
C12_Completed ==
  statusFilter = "completed" =>
    LET done == {i \in 1..Len(torrents) : torrents[i].progress >= 100} IN
    /\ statusStep(torrents, statusFilter) = Restrict(torrents, done)
    /\ trim(searchQuery) = <<>> =>
         /\ Range(filteredTorrents.result) = {torrents[i] : i \in done}
         /\ Len(filteredTorrents.result) = Cardinality(done)

\* progress [100, 40, 100] with statuses [seeding, downloading, paused]: the
\* first and the third entry
C12_Witness ==
  /\ last.op = "setStatusFilter"
  /\ statusFilter = "completed"
  /\ torrents = <<E1, E2, E3>>
  /\ statusStep(torrents, statusFilter) = <<E1, E3>>

\* the sort key of an entry as the list shows it: the name, the size, the
\* progress, the download speed, the time it was added (a missing number is 0)
KeyOf(t, field) ==
  CASE field = "name" -> t.name
    [] field = "size" -> OrZero(t.size)
    [] field = "progress" -> OrZero(t.progress)
    [] field = "speed" -> OrZero(t.downloadSpeed)
    [] field = "added" -> t.addedAt

\* the positions of a's entries x and y are in the same order in b
SameOrder(a, b, x, y) ==
  \A i, j \in 1..Len(a), k, l \in 1..Len(b) :
    (a[i] = x /\ a[j] = y /\ b[k] = x /\ b[l] = y /\ i < j) => k < l

C13_SortedBy(field) ==
  LET input == searchStep(statusStep(torrents, statusFilter), searchQuery)
      asc == sortStep(input, field, "asc")
      desc == sortStep(input, field, "desc")
      distinct == \A i, j \in 1..Len(input) :
                    i # j => KeyOf(input[i], field) # KeyOf(input[j], field) IN
  /\ distinct => asc = Reverse(desc)
  /\ \A x, y \in Range(input) :
       (x # y /\ KeyOf(x, field) = KeyOf(y, field)) =>
         SameOrder(input, asc, x, y) /\ SameOrder(input, desc, x, y)

\* C13: sorted by the chosen key, the ascending order is the reverse of the
\* descending order when no two entries have the same key, and entries with
\* the same key keep their relative order in both directions.
C13_Sorted == C13_SortedBy(sortField)

\* the same for the four keys other than the added time
C13_SortedButAdded == sortField # "added" => C13_SortedBy(sortField)

\* C14: the derived list holds exactly the entries of the collection that pass
\* the status filter and, when the search text is not blank, whose name or
\* infoHash contains the search text whatever the case of the letters; each
\* of them once; and the collection is as it was.
CaseBlindContains(str, q) ==
  \E i \in 0..(Len(str) - Len(q)) :
    \A k \in 1..Len(q) : LowerOf(str[i + k]) = LowerOf(q[k])

Passes(t) ==
  /\ \/ statusFilter = "all"
     \/ statusFilter = "completed" /\ t.progress >= 100
     \/ statusFilter # "completed" /\ t.status = statusFilter
  /\ \/ \A k \in 1..Len(searchQuery) : searchQuery[k] = " "
     \/ CaseBlindContains(t.name, searchQuery)
     \/ CaseBlindContains(t.infoHash, searchQuery)

C14_Derived ==
  LET passing == {i \in 1..Len(torrents) : Passes(torrents[i])} IN
  /\ Range(filteredTorrents.result) = {torrents[i] : i \in passing}
  /\ Len(filteredTorrents.result) = Cardinality(passing)
  /\ filteredTorrents.source = torrents
  /\ filteredTorrents =
       derive(torrents, statusFilter, searchQuery, sortField, sortDir)

\* 'paused' and the search text "ab" leave the entry named "Ab" of three
C14_Witness ==
  /\ torrents = <<E1, E2, E3>>
  /\ statusFilter = "paused"
  /\ searchQuery = <<"a", "b">>
  /\ sortField = "name"
  /\ filteredTorrents.result = <<E3>>

----------------------------------------------------------------------------
(* Properties of the API layer *)

\* C15: a response with status 401 removes the stored token, reloads the page
\* and fails the call; a failed response with another status leaves the token
\* and the page alone; the requests that authenticate carry the stored token
\* as a bearer credential.
C15_UnauthorizedStep ==
  /\ (last'.op \in (FetchEnds \cup HistoryEnds) /\ last'.arg.code = 401) =>
       /\ ~token'
       /\ reload'
       /\ last'.op \in {"fetchData rejected", "fetchHistory rejected"}
  /\ (last'.op \in (FetchEnds \cup HistoryEnds) /\ last'.arg.code # 401) =>
       /\ token' = token
       /\ reload' = reload
  /\ last'.op \in Starts =>
       last'.out[1] = Request("GET /api/torrent", IF token THEN "Bearer te_token" ELSE NoAuth)
  /\ last'.op \in {"SpeedGraph effects", "fallback interval"} =>
       last'.out[1] = Request("GET /api/statistics/speed-history",
                              IF token THEN "Bearer te_token" ELSE NoAuth)

C15_Unauthorized == [][C15_UnauthorizedStep]_vars

\* the same for the responses whose body is JSON
C15_UnauthorizedJsonStep ==
  (last'.op \in (FetchEnds \cup HistoryEnds) => last'.arg.json) => C15_UnauthorizedStep

C15_UnauthorizedJson == [][C15_UnauthorizedJsonStep]_vars

----------------------------------------------------------------------------
(* Properties of the delivery of push events *)

\* C16: an event is delivered to every callback registered at that moment,
\* exactly once each, in the order of registration (a registration goes to the
\* end of the registry and a removal keeps the order of the others); nothing is
\* kept for a callback that registers afterwards.
C16_DeliveryStep ==
  /\ last'.op = "stats:speed" =>
       /\ Elems(last'.out) = acquired \cap SpeedHolders
       /\ \A i, j \in DOMAIN last'.out : last'.out[i] = last'.out[j] => i = j
       /\ last'.out = sock.speedListeners
  /\ \A h \in SpeedHolders :
       /\ (h \in acquired' /\ h \notin acquired) =>
            sock'.speedListeners = Append(sock.speedListeners, h)
       /\ (h \in acquired /\ h \notin acquired') =>
            sock'.speedListeners \in {<<>>, SelectSeq(sock.speedListeners, LAMBDA y : y # h)}
  /\ latestSpeed' # latestSpeed =>
       \/ last'.op = "stats:speed" /\ "speedGraph" \in acquired
       \/ latestSpeed' = <<>>

C16_Delivery == [][C16_DeliveryStep]_vars

\* an event reached both the Navbar's and the SpeedGraph's callback
C16_Witness ==
  /\ last.op = "stats:speed"
  /\ last.out = <<"navbar", "speedGraph">>
  /\ latestSpeed = <<last.arg>>

\* an event went by while the SpeedGraph was not mounted, and the SpeedGraph
\* mounted since has not been given it
C16_LateSubscriber ==
  /\ nextTs > 0
  /\ "speedGraph" \in acquired
  /\ latestSpeed = <<>>

----------------------------------------------------------------------------
(* Properties of a repeated cleanup *)

\* the module state and the socket's state, without the log of the calls
SocketState(m) == [m EXCEPT !.calls = <<>>]

\* the cleanup of holder h run on m
CleanupOf(h, m) ==
  IF h = "dashboard" THEN useSocketCleanup(m) ELSE useSpeedSocketCleanup(m, h)

\* C17: unsubscribing is idempotent: after a holder's cleanup has run, running
\* it a second time changes neither the registries, nor the reference count,
\* nor the socket.
C17_IdempotentStep ==
  \A h \in Holders :
    (h \in acquired /\ h \notin acquired') =>
      SocketState(CleanupOf(h, sock')) = SocketState(sock')

C17_Idempotent == [][C17_IdempotentStep]_vars

----------------------------------------------------------------------------
(* Properties of the order of snapshots and push events *)

\* C18: the last arrival wins.  After a snapshot arrived at the mounted
\* Dashboard the collection is that snapshot, whole; after a progress event
\* the matching entry has the event's progress and rates; and the collection
\* changes by nothing but an arrival (or the unmount), so a field an arrival
\* took back stays so until the next arrival.
C18_LastArrivalState ==
  /\ (last.op = "fetchData resolved" /\ last.arg.live) => torrents = last.arg.list.val
  /\ last.op = "torrent:progress" =>
       \A i \in DOMAIN torrents :
         torrents[i].infoHash = last.arg.infoHash =>
           /\ torrents[i].progress = last.arg.percentage
           /\ torrents[i].downloadSpeed = last.arg.downloadSpeed
           /\ torrents[i].uploadSpeed = last.arg.uploadSpeed

C18_LastArrivalStep ==
  /\ torrents' # torrents =>
       last'.op \in {"fetchData resolved", "torrent:progress", "polling cleanup", "load"}
  /\ last'.op = "torrent:progress" =>
       /\ Len(torrents') = Len(torrents)
       /\ \A i \in DOMAIN torrents :
            torrents[i].infoHash # last'.arg.infoHash => torrents'[i] = torrents[i]

C18_LastArrival == [](C18_LastArrivalState) /\ [][C18_LastArrivalStep]_vars

\* a progress event arrived after the snapshot <<A2, B1>> and overrode the
\* first entry's progress and rates; the rest is the snapshot's
C18_Witness ==
  /\ last.op = "torrent:progress"
  /\ last.arg.infoHash = "a"
  /\ Len(torrents) = 2
  /\ torrents[1] = [A2 EXCEPT !.progress = 55, !.downloadSpeed = 1024, !.uploadSpeed = 256]
  /\ torrents[2] = B1

----------------------------------------------------------------------------
(* Properties of the appended samples *)

\* no sample twice, and the samples in the order of their arrival
C19_InOrderOnce ==
  \A i, j \in DOMAIN history : i < j => history[i] < history[j]

\* no sample skipped: a sample the mounted, connected SpeedGraph was given is
\* not replaced by the next one before it was appended
C19_NoSkipStep ==
  (last'.op = "stats:speed" /\ latestSpeed' # latestSpeed
     /\ latestSpeed # <<>> /\ isConnected["speedGraph"]) =>
    committed.latestSpeed = latestSpeed

\* the history changes by an append alone, which evicts at most the oldest
\* entry (the first load into an empty history and the unmount aside)
C19_NoRewriteStep ==
  history' # history =>
    \/ history = <<>>
    \/ history' = <<>> /\ last'.op \in {"SpeedGraph cleanup", "load"}
    \/ /\ last'.op = "append"
       /\ history' \in {Append(history, last'.arg), Tail(Append(history, last'.arg))}

\* C19: every sample delivered while the graph is mounted is appended exactly
\* once, in arrival order, without skip or duplicate, also across a disconnect
\* and reconnect; the history is never shortened or rewritten except by the
\* eviction of the oldest entry.
C19_ExactlyOnce ==
  [](C19_InOrderOnce) /\ [][C19_NoSkipStep /\ C19_NoRewriteStep]_vars

C19_NoSkip == [][C19_NoSkipStep]_vars
C19_NoRewrite == [][C19_NoRewriteStep]_vars

----------------------------------------------------------------------------
(* Properties of the connection flag *)

\* the socket's actual connection state (sharedSocket?.connected ?? false)
ActuallyConnected == sock.sharedSocket # Null /\ sock.connected

\* C20: in every quiescent state the isConnected value of each mounted
\* consumer of useSpeedSocket equals the socket's actual connection state.
C20_Observed ==
  Settled => \A h \in hooked \cap SpeedHolders : isConnected[h] = ActuallyConnected

\* the same for the consumers that hold a subscription
C20_ObservedBySubscribers ==
  Settled => \A h \in acquired \cap SpeedHolders : isConnected[h] = ActuallyConnected

----------------------------------------------------------------------------
(* Connection failures *)

NextRetry ==
  \/ \E h \in SpeedHolders : UseSpeedSocketEffect(h)
  \/ UseSocketEffect
  \/ PollingEffect
  \/ SocketConnect
  \/ SocketDisconnect
  \/ ConnectError
  \/ TimerTick
  \/ \E i \in 1..MaxInFlight, r \in ListAnswers : ListResponds(i, r)
  \/ \E i \in 1..MaxInFlight, r \in StatsAnswers : StatsResponds(i, r)
  \/ PageReload

\* The Dashboard of an authenticated session on a push channel that fails to
\* connect, connects, is lost and is retried.
SpecRetry == InitAuthed /\ [][NextRetry]_vars

\* the reconnection of the present socket has given up
Exhausted == sock.sharedSocket # Null /\ ~sock.connected /\ ~sock.retrying

\* C21: a connect_error changes no application state; at most 10 reconnection
\* tries are made after a disconnection; once they are exhausted the socket
\* stays disconnected and no error state is entered, and the Dashboard's
\* polling goes on: the timer still starts fetches and their answers still
\* replace the collection.
C21_NonFatalState ==
  /\ sock.attempts <= reconnectionAttempts
  /\ healthStatus # "error"
  /\ (Exhausted /\ DashQuiet /\ Len(fetches) < MaxInFlight) => ENABLED TimerTick
  /\ (Exhausted /\ last.op = "fetchData resolved" /\ last.arg.live) =>
       torrents = last.arg.list.val /\ stats = last.arg.stats.val

C21_NonFatalStep ==
  /\ last'.op = "connect_error" =>
       /\ UNCHANGED <<appVars, hooked, acquired, isConnected, dashVars, listVars, cmdVars, graphVars>>
       /\ [sock' EXCEPT !.attempts = 0, !.retrying = TRUE, !.calls = <<>>]
            = [sock EXCEPT !.attempts = 0, !.retrying = TRUE, !.calls = <<>>]
       /\ sock'.calls = <<"console.warn">>
  /\ (Exhausted /\ ~reload) => (Exhausted' /\ (polling => polling'))

C21_NonFatal == [](C21_NonFatalState) /\ [][C21_NonFatalStep]_vars

\* the tries are exhausted after a connect and a disconnect, and a poll made
\* since then has replaced the collection
C21_Witness ==
  /\ Exhausted
  /\ sock.attempts = reconnectionAttempts
  /\ polling
  /\ last.op = "fetchData resolved"
  /\ last.arg.live
  /\ torrents = last.arg.list.val
  /\ torrents # <<>>

----------------------------------------------------------------------------
(* Properties of the connection indicator *)

\* the ever-connected flag is set only on a render that saw the connection
\* connected, and a mounted Navbar never takes it back
C22_FlagStep ==
  /\ (wasEverConnected' /\ ~wasEverConnected) => isConnected["navbar"]
  /\ (wasEverConnected /\ "navbar" \in hooked') => wasEverConnected'
  /\ showDisconnected' => wasEverConnected'

\* C22: the disconnected indicator is suppressed before the first connect, the
\* ever-connected flag never returns to false, and when a connected socket
\* disconnects under a mounted Navbar that has rendered the connection,
\* showDisconnected is true, and stays true while the socket stays
\* disconnected.
C22_IndicatorStep ==
  /\ C22_FlagStep
  /\ (last'.op = "disconnect" /\ "navbar" \in hooked /\ ~ENABLED ConnectionStatusEffect) =>
       showDisconnected'
  /\ (showDisconnected /\ "navbar" \in hooked' /\ ~ActuallyConnected') => showDisconnected'

C22_Indicator == [][C22_IndicatorStep]_vars

\* the same for a Navbar that holds a subscription
C22_IndicatorSubscribedStep ==
  /\ C22_FlagStep
  /\ (last'.op = "disconnect" /\ "navbar" \in acquired /\ ~ENABLED ConnectionStatusEffect) =>
       showDisconnected'
  /\ (showDisconnected /\ "navbar" \in hooked' /\ ~ActuallyConnected') => showDisconnected'

C22_IndicatorSubscribed == [][C22_IndicatorSubscribedStep]_vars

----------------------------------------------------------------------------
(* pages/Dashboard.tsx: uploads and commands *)

\* files of one selection or drop, upload batches under way at once, command
\* requests in flight at once
MaxFiles == 2
MaxBatches == 2
MaxRequests == 1

F1 == [name |-> "one", ext |-> "torrent"]
F2 == [name |-> "two", ext |-> "torrent"]
F3 == [name |-> "notes", ext |-> "txt"]
AllFiles == <<F1, F2, F3>>
\* the selections: up to MaxFiles of the files, in the order of the file list
FileLists ==
  {SelectSeq(AllFiles, LAMBDA f : f \in S) :
     S \in {T \in SUBSET {F1, F2, F3} : Cardinality(T) <= MaxFiles}}

\* files.filter(f => f.name.endsWith('.torrent'))
torrentFiles(files) == SelectSeq(files, LAMBDA f : f.ext = "torrent")

\* text.startsWith(prefix)
startsWith(text, prefix) ==
  Len(text) >= Len(prefix) /\ SubSeq(text, 1, Len(prefix)) = prefix
Magnet == <<"m", "a", "g", "n", "e", "t", ":">>
\* the text/plain data of a drop: none, a magnet link, something else
DropTexts == {<<>>, Magnet \o <<"x">>, <<"x">>}
\* the add-magnet form's input: empty, blank, a link, a link between blanks
MagnetInputs == {<<>>, <<" ">>, Magnet \o <<"x">>, <<" ">> \o Magnet \o <<"x", " ">>}

\* the answers to an upload or a command
CommandAnswers ==
  {[st |-> "ok", code |-> 200, json |-> TRUE]}
    \cup {[st |-> "fail", code |-> c, json |-> j] : c \in FailureCodes, j \in BOOLEAN}

\* torrentService.upload(file), with getAuthHeadersMultipart()
UploadRequest(file, tok) ==
  [url |-> "POST /api/torrent/create", authorization |-> getAuthHeaders(tok),
   file |-> file.name]
\* torrentService.addMagnet / pause / resume / delete
CommandRequest(kind, id, deleteFiles, tok) ==
  [url |-> CASE kind \in {"addMagnet", "dropMagnet"} -> "POST /api/torrent/create"
             [] kind = "pause" -> "POST /api/torrent/:id/pause"
             [] kind = "resume" -> "POST /api/torrent/:id/resume"
             [] kind = "delete" -> "DELETE /api/torrent/:id",
   authorization |-> getAuthHeaders(tok), id |-> id, deleteFiles |-> deleteFiles]

\* What a step of this section leaves in last.arg: its input, the requests it
\* sent, the notifications it raised, whether it called fetchData().
Outcome(input, sent, toasts, fetch) ==
  [input |-> input, sent |-> sent, toasts |-> toasts, fetch |-> fetch]

CmdFrame == UNCHANGED <<isAuthenticated, currentPage, healthStatus, sockVars,
                        polling, torrents, stats, loading, listVars, graphVars>>
NoResponse == UNCHANGED <<token, reload>>

\* a batch that stops at the first failed file
uploadSettled_Mutant_StopAtFailure(batch, throws) ==
  LET ok == batch.ok + (IF throws THEN 0 ELSE 1)
      more == batch.at < Len(batch.files) /\ ~throws IN
  [ more |-> more, ok |-> ok,
    toasts |-> (IF throws THEN <<"toast.error Upload failed">> ELSE <<>>)
                 \o (IF ~more /\ ok > 0 THEN <<"toast.success Uploaded">> ELSE <<>>),
    fetch |-> ~more /\ ok > 0 ]

\* The loop body after an upload settled, and what follows the loop when that
\* was the last file: the success count, the notifications, whether
\* fetchData() is called.
uploadSettled(batch, throws) ==
  LET ok == batch.ok + (IF throws THEN 0 ELSE 1)
      more == batch.at < Len(batch.files) IN
  [ more |-> more, ok |-> ok,
    toasts |-> (IF throws THEN <<"toast.error Upload failed">> ELSE <<>>)
                 \o (IF ~more /\ ok > 0 THEN <<"toast.success Uploaded">> ELSE <<>>),
    fetch |-> ~more /\ ok > 0 ]

\* the head of handleFileUpload and of handleDrop from setUploading(true) on
StartBatch(op, files) ==
  LET tf == torrentFiles(files) IN
  /\ Len(uploads) < MaxBatches
  /\ uploading' = TRUE
  /\ uploads' = Append(uploads, [files |-> tf, at |-> 1, ok |-> 0])
  /\ last' = Did(op, Outcome(files, <<UploadRequest(tf[1], token)>>, <<>>, FALSE), <<>>)
  /\ UNCHANGED <<requests, dialog, fetches>>

\* handleFileUpload: the file input's onChange; the input is disabled while uploading
HandleFileUpload(files) ==
  /\ DashQuiet
  /\ ~uploading
  /\ IF files = <<>>
     THEN /\ last' = Did("handleFileUpload", Outcome(files, <<>>, <<>>, FALSE), <<>>)
          /\ UNCHANGED <<cmdVars, fetches>>
     ELSE IF torrentFiles(files) = <<>>
     THEN /\ last' = Did("handleFileUpload",
                         Outcome(files, <<>>, <<"toast.warning Invalid file">>, FALSE), <<>>)
          /\ UNCHANGED <<cmdVars, fetches>>
     ELSE StartBatch("handleFileUpload", files)
  /\ NoResponse
  /\ CmdFrame

\* handleDrop: the page's onDrop
HandleDrop(files, text) ==
  /\ DashQuiet
  /\ IF torrentFiles(files) # <<>>
     THEN StartBatch("handleDrop", files)
     ELSE IF startsWith(text, Magnet)
     THEN /\ Len(requests) < MaxRequests
          /\ requests' = Append(requests, [kind |-> "dropMagnet", id |-> Null,
                                           deleteFiles |-> FALSE])
          /\ last' = Did("handleDrop",
                         Outcome(files, <<CommandRequest("dropMagnet", Null, FALSE, token)>>,
                                 <<>>, FALSE), <<>>)
          /\ UNCHANGED <<uploading, uploads, dialog, fetches>>
     ELSE /\ last' = Did("handleDrop",
                         Outcome(files, <<>>, <<"toast.warning Invalid file">>, FALSE), <<>>)
          /\ UNCHANGED <<cmdVars, fetches>>
  /\ NoResponse
  /\ CmdFrame

\* The upload of batch b that is in flight settles; the loop goes on with the
\* next file or ends.
UploadResponds(b, r) ==
  /\ DashQuiet
  /\ b \in 1..Len(uploads)
  /\ LET batch == uploads[b]
         handled == handleResponse(r, token)
         done == uploadSettled(batch, handled.throws) IN
       /\ token' = handled.token
       /\ reload' = (reload \/ handled.reload)
       /\ IF done.more
          THEN /\ uploads' = [uploads EXCEPT ![b] = [batch EXCEPT !.at = @ + 1, !.ok = done.ok]]
               /\ UNCHANGED <<uploading, fetches>>
               /\ last' = Did("upload settled",
                              Outcome([batch |-> batch, ok |-> done.ok, throws |-> handled.throws,
                                       code |-> r.code, finished |-> FALSE],
                                      <<UploadRequest(batch.files[batch.at + 1], handled.token)>>,
                                      done.toasts, FALSE),
                              handled.calls)
          ELSE /\ uploads' = RemoveAt(uploads, b)
               /\ uploading' = FALSE
               /\ IF done.fetch
                  THEN /\ Len(fetches) < MaxInFlight
                       /\ fetches' = Append(fetches, NewFetch)
                  ELSE UNCHANGED fetches
               /\ last' = Did("upload settled",
                              Outcome([batch |-> batch, ok |-> done.ok, throws |-> handled.throws,
                                       code |-> r.code, finished |-> TRUE],
                                      IF done.fetch THEN FetchDataRequests(handled.token) ELSE <<>>,
                                      done.toasts, done.fetch),
                              handled.calls)
  /\ UNCHANGED <<requests, dialog>>
  /\ CmdFrame

\* a command sends its request
Send(op, input, kind, id, deleteFiles) ==
  /\ Len(requests) < MaxRequests
  /\ requests' = Append(requests, [kind |-> kind, id |-> id, deleteFiles |-> deleteFiles])
  /\ last' = Did(op, Outcome(input, <<CommandRequest(kind, id, deleteFiles, token)>>,
                             <<>>, FALSE), <<>>)

\* handleAddMagnet: nothing is sent for an input that is empty after trim()
HandleAddMagnet(input) ==
  /\ DashQuiet
  /\ IF trim(input) = <<>>
     THEN /\ last' = Did("handleAddMagnet", Outcome(input, <<>>, <<>>, FALSE), <<>>)
          /\ UNCHANGED requests
     ELSE Send("handleAddMagnet", input, "addMagnet", Null, FALSE)
  /\ UNCHANGED <<uploading, uploads, dialog, fetches>>
  /\ NoResponse
  /\ CmdFrame

\* handlePause, handleResume: the buttons of a row of the list
HandlePause(id) ==
  /\ DashQuiet
  /\ id \in {torrents[i].infoHash : i \in DOMAIN torrents}
  /\ Send("handlePause", id, "pause", id, FALSE)
  /\ UNCHANGED <<uploading, uploads, dialog, fetches>>
  /\ NoResponse
  /\ CmdFrame

HandleResume(id) ==
  /\ DashQuiet
  /\ id \in {torrents[i].infoHash : i \in DOMAIN torrents}
  /\ Send("handleResume", id, "resume", id, FALSE)
  /\ UNCHANGED <<uploading, uploads, dialog, fetches>>
  /\ NoResponse
  /\ CmdFrame

\* handleDelete up to its await: confirmDelete(name) opens the delete dialog,
\* whose checkbox starts unchecked. Called while the dialog is open (the row's
\* button reached by keyboard), setDialog replaces the dialog's name and
\* resolve; the mounted DeleteConfirmDialog keeps its checkbox state, and the
\* promise of the earlier call is never resolved.
HandleDelete(id) ==
  /\ DashQuiet
  /\ id \in {torrents[i].infoHash : i \in DOMAIN torrents}
  /\ dialog' = <<[id |-> id,
                  deleteFiles |-> IF dialog = <<>> THEN FALSE ELSE dialog[1].deleteFiles]>>
  /\ last' = Did("handleDelete", Outcome(id, <<>>, <<>>, FALSE), <<>>)
  /\ UNCHANGED <<uploading, uploads, requests, fetches>>
  /\ NoResponse
  /\ CmdFrame

\* the dialog's checkbox
SetDeleteFiles(checked) ==
  /\ Settled
  /\ dialog # <<>>
  /\ dialog[1].deleteFiles # checked
  /\ dialog' = <<[dialog[1] EXCEPT !.deleteFiles = checked]>>
  /\ last' = Did("setDeleteFiles", Outcome(checked, <<>>, <<>>, FALSE), <<>>)
  /\ UNCHANGED <<uploading, uploads, requests, fetches>>
  /\ NoResponse
  /\ CmdFrame

\* a confirm that always asks for the files to be kept
DialogConfirm_Mutant_KeepFiles ==
  /\ DashQuiet
  /\ dialog # <<>>
  /\ Send("confirm delete", dialog[1], "delete", dialog[1].id, FALSE)
  /\ dialog' = <<>>
  /\ UNCHANGED <<uploading, uploads, fetches>>
  /\ NoResponse
  /\ CmdFrame

\* The dialog's Delete button: resolve({confirmed: true, deleteFiles}), the
\* dialog closes, and handleDelete goes on to torrentService.delete.
DialogConfirm ==
  /\ DashQuiet
  /\ dialog # <<>>
  /\ Send("confirm delete", dialog[1], "delete", dialog[1].id, dialog[1].deleteFiles)
  /\ dialog' = <<>>
  /\ UNCHANGED <<uploading, uploads, fetches>>
  /\ NoResponse
  /\ CmdFrame

\* The dialog's Cancel button, its backdrop, the Escape key:
\* resolve({confirmed: false, ...}), the dialog closes, handleDelete returns.
DialogCancel(how) ==
  /\ Settled
  /\ dialog # <<>>
  /\ dialog' = <<>>
  /\ last' = Did("cancel delete", Outcome([dialog |-> dialog[1], how |-> how], <<>>, <<>>, FALSE), <<>>)
  /\ UNCHANGED <<uploading, uploads, requests, fetches>>
  /\ NoResponse
  /\ CmdFrame

\* a command that refetches after a failure too
commandSettled_Mutant_AlwaysFetch(kind, throws) ==
  [ toasts |-> IF throws THEN <<"toast.error Error">>
               ELSE IF kind \in {"addMagnet", "dropMagnet"} THEN <<"toast.success Added">>
               ELSE IF kind = "delete" THEN <<"toast.success Deleted">>
               ELSE <<>>,
    fetch |-> TRUE ]

\* A command after its await: the success notification (add, delete) and
\* fetchData(), or the catch's error notification.
commandSettled(kind, throws) ==
  [ toasts |-> IF throws THEN <<"toast.error Error">>
               ELSE IF kind \in {"addMagnet", "dropMagnet"} THEN <<"toast.success Added">>
               ELSE IF kind = "delete" THEN <<"toast.success Deleted">>
               ELSE <<>>,
    fetch |-> ~throws ]

\* The request i of a command settles.
CommandResponds(i, r) ==
  /\ DashQuiet
  /\ i \in 1..Len(requests)
  /\ LET req == requests[i]
         handled == handleResponse(r, token)
         done == commandSettled(req.kind, handled.throws) IN
       /\ token' = handled.token
       /\ reload' = (reload \/ handled.reload)
       /\ requests' = RemoveAt(requests, i)
       /\ IF done.fetch
          THEN /\ Len(fetches) < MaxInFlight
               /\ fetches' = Append(fetches, NewFetch)
          ELSE UNCHANGED fetches
       /\ last' = Did("command settled",
                      Outcome([request |-> req, throws |-> handled.throws, code |-> r.code],
                              IF done.fetch THEN FetchDataRequests(handled.token) ELSE <<>>,
                              done.toasts, done.fetch),
                      handled.calls)
  /\ UNCHANGED <<uploading, uploads, dialog>>
  /\ CmdFrame

\* the answers of a poll that succeed, and one of each
OkLists == {r \in ListAnswers : r.st = "ok"}
OkStats == {r \in StatsAnswers : r.st = "ok"}
OneList == {r \in OkLists : r.val = <<A2, B1>>}
OneStats == {r \in OkStats : r.val = "stats1"}

NextUpload ==
  \/ \E h \in SpeedHolders : UseSpeedSocketEffect(h)
  \/ UseSocketEffect
  \/ PollingEffect
  \/ \E i \in 1..MaxInFlight, r \in OneList : ListResponds(i, r)
  \/ \E i \in 1..MaxInFlight, r \in OneStats : StatsResponds(i, r)
  \/ \E files \in FileLists : HandleFileUpload(files)
  \/ \E files \in FileLists, text \in DropTexts : HandleDrop(files, text)
  \/ \E b \in 1..MaxBatches, r \in CommandAnswers : UploadResponds(b, r)
  \/ \E i \in 1..MaxRequests, r \in CommandAnswers : CommandResponds(i, r)
  \/ PageReload

\* The Dashboard of an authenticated session and the uploads of its user.
SpecUpload == InitAuthed /\ [][NextUpload]_vars

NextCmd ==
  \/ \E h \in SpeedHolders : UseSpeedSocketEffect(h)
  \/ UseSocketEffect
  \/ PollingEffect
  \/ \E i \in 1..MaxInFlight, r \in OkLists : ListResponds(i, r)
  \/ \E i \in 1..MaxInFlight, r \in OneStats : StatsResponds(i, r)
  \/ \E input \in MagnetInputs : HandleAddMagnet(input)
  \/ \E id \in {"a", "b"} : HandlePause(id)
  \/ \E id \in {"a", "b"} : HandleResume(id)
  \/ \E id \in {"a", "b"} : HandleDelete(id)
  \/ \E checked \in BOOLEAN : SetDeleteFiles(checked)
  \/ DialogConfirm
  \/ \E how \in {"button", "backdrop", "Escape"} : DialogCancel(how)
  \/ \E i \in 1..MaxRequests, r \in CommandAnswers : CommandResponds(i, r)
  \/ PageReload

\* The Dashboard of an authenticated session and the commands of its user.
SpecCmd == InitAuthed /\ [][NextCmd]_vars

-----------------------------------------------------------------------------
(* Properties of the upload of a batch *)

Times(seq, x) == Cardinality({i \in DOMAIN seq : seq[i] = x})
BatchStarted == last'.op \in {"handleFileUpload", "handleDrop"} /\ Len(uploads') > Len(uploads)
UploadSettledStep == last'.op = "upload settled" /\ uploads' # uploads

\* The files of a batch are uploaded one at a time in their order and a
\* failure does not stop the rest: the batch starts with the request for its
\* first .torrent file, and an upload that settled on a file that is not the
\* last is followed by the request for the next file, whether it failed or not.
\* An upload that failed raises exactly one error notification, one that
\* succeeded none. After the last file there is exactly one success
\* notification and one fetchData() when some upload succeeded, and neither
\* when none did; the count is the number of uploads that succeeded. The
\* uploading flag is set at the start and cleared after the last file.
C23_BatchStep ==
  /\ BatchStarted =>
       /\ last'.arg.sent = <<UploadRequest(torrentFiles(last'.arg.input)[1], token)>>
       /\ uploads'[Len(uploads')].files = torrentFiles(last'.arg.input)
       /\ uploading'
       /\ last'.arg.toasts = <<>> /\ ~last'.arg.fetch /\ fetches' = fetches
  /\ UploadSettledStep =>
       LET a == last'.arg.input
           batch == a.batch IN
       /\ Times(last'.arg.toasts, "toast.error Upload failed") = (IF a.throws THEN 1 ELSE 0)
       /\ a.ok = batch.ok + (IF a.throws THEN 0 ELSE 1)
       /\ a.finished = (batch.at = Len(batch.files))
       /\ ~a.finished =>
            /\ last'.arg.sent = <<UploadRequest(batch.files[batch.at + 1], token')>>
            /\ Times(last'.arg.toasts, "toast.success Uploaded") = 0
            /\ ~last'.arg.fetch /\ fetches' = fetches
            /\ uploading' = uploading
       /\ a.finished =>
            /\ Times(last'.arg.toasts, "toast.success Uploaded") = (IF a.ok > 0 THEN 1 ELSE 0)
            /\ last'.arg.fetch = (a.ok > 0)
            /\ Len(fetches') = Len(fetches) + (IF a.ok > 0 THEN 1 ELSE 0)
            /\ ~uploading'
C23_BatchSteps == [][C23_BatchStep]_vars

\* a batch that ran to its end with one upload failed and one succeeded
C23_BatchWitness ==
  /\ last.op = "upload settled"
  /\ last.arg.input.finished
  /\ Len(last.arg.input.batch.files) = 2
  /\ last.arg.input.ok = 1
  /\ last.arg.fetch

\* C23: the uploading flag is true during a batch: while an upload of a batch
\* is under way the flag is set.
C23_UploadingDuringBatch == (uploads # <<>> /\ ~reload) => uploading

-----------------------------------------------------------------------------
(* Properties of the commands *)

CommandSettledStep == last'.op = "command settled" /\ requests' # requests
Blank(input) == \A i \in DOMAIN input : input[i] = " "
ViewKept ==
  /\ torrents' = torrents /\ stats' = stats /\ loading' = loading
  /\ UNCHANGED <<isAuthenticated, currentPage, healthStatus, polling, listVars>>

\* What holds of every command whose request settled: a failure raises
\* exactly one error notification and starts no fetchData(), and leaves the
\* collection, the stats and the view's state as they were; a success starts
\* exactly one fetchData(). An add-magnet submission sends one request unless
\* its input is empty or blank, and then none.
C24_SettledStep ==
  /\ CommandSettledStep =>
       LET a == last'.arg.input IN
       /\ a.throws =>
            /\ last'.arg.toasts = <<"toast.error Error">>
            /\ ~last'.arg.fetch /\ last'.arg.sent = <<>> /\ fetches' = fetches
            /\ ViewKept
       /\ ~a.throws =>
            /\ last'.arg.fetch
            /\ last'.arg.sent = FetchDataRequests(token)
            /\ Len(fetches') = Len(fetches) + 1
            /\ Times(last'.arg.toasts, "toast.error Error") = 0
  /\ last'.op = "handleAddMagnet" =>
       /\ Blank(last'.arg.input) => (last'.arg.sent = <<>> /\ requests' = requests)
       /\ ~Blank(last'.arg.input) =>
            /\ Len(last'.arg.sent) = 1
            /\ Len(requests') = Len(requests) + 1

\* C24 (as stated): a failed command leaves the mounted view unchanged: the
\* page is not reloaded and the session is kept.
C24_FailureStep ==
  (CommandSettledStep /\ last'.arg.input.throws) => (reload' = reload /\ token' = token)
C24_UnauthorizedStep ==
  (CommandSettledStep /\ last'.arg.input.throws) =>
     /\ (reload' # reload \/ token' # token) => last'.arg.input.code = 401
     /\ last'.arg.input.code # 401 => (reload' = reload /\ token' = token)
-----------------------------------------------------------------------------
(* Properties of the delete dialog *)

\* the steps of the commands, which leave an Outcome in last.arg
CommandOps ==
  {"handleAddMagnet", "handlePause", "handleResume", "handleDelete", "setDeleteFiles",
   "confirm delete", "cancel delete", "command settled"}
SendsDelete ==
  /\ Len(requests') > Len(requests)
  /\ requests'[Len(requests')].kind = "delete"

\* C30: a delete request leaves only in the step that confirms the open
\* dialog; it is for the torrent the dialog was last opened for and carries the
\* state of the dialog's checkbox. The dialog is opened for the torrent of the
\* row and its checkbox changes only by the user's toggling. A cancel sends
\* nothing, raises no notification, starts no fetch and leaves the collection
\* unchanged.
C30_DeleteStep ==
  /\ SendsDelete =>
       /\ last'.op = "confirm delete"
       /\ dialog # <<>>
       /\ last'.arg.sent =
            <<CommandRequest("delete", dialog[1].id, dialog[1].deleteFiles, token)>>
       /\ requests'[Len(requests')].id = dialog[1].id
       /\ requests'[Len(requests')].deleteFiles = dialog[1].deleteFiles
  /\ (/\ last'.op \in CommandOps
      /\ \E i \in DOMAIN last'.arg.sent : last'.arg.sent[i].url = "DELETE /api/torrent/:id")
       => SendsDelete
  /\ last'.op \notin CommandOps => (requests' = requests \/ requests' = <<>>)
  /\ last'.op = "handleDelete" =>
       /\ dialog' # <<>> /\ dialog'[1].id = last'.arg.input
       /\ requests' = requests /\ last'.arg.sent = <<>>
       /\ dialog = <<>> => ~dialog'[1].deleteFiles
  /\ (dialog # <<>> /\ dialog' # <<>> /\ dialog'[1].deleteFiles # dialog[1].deleteFiles)
       => last'.op = "setDeleteFiles"
  /\ last'.op = "cancel delete" =>
       /\ dialog' = <<>>
       /\ requests' = requests /\ last'.arg.sent = <<>>
       /\ last'.arg.toasts = <<>>
       /\ ~last'.arg.fetch /\ fetches' = fetches
       /\ torrents' = torrents /\ stats' = stats
C30_Delete == [][C30_DeleteStep]_vars

\* the dialog was confirmed with the checkbox ticked
C30_Witness ==
  /\ last.op = "confirm delete"
  /\ last.arg.sent[1].deleteFiles
  /\ requests # <<>> /\ requests[1].kind = "delete" /\ requests[1].deleteFiles

\* the dialog was cancelled with the Escape key
C30_CancelWitness ==
  /\ last.op = "cancel delete"
  /\ last.arg.input.how = "Escape"
  /\ requests = <<>>

-----------------------------------------------------------------------------
(* App: the health check among the other failures *)

NextHealth ==
  \/ \E h \in SpeedHolders : UseSpeedSocketEffect(h)
  \/ \E h \in SpeedHolders : UseSpeedSocketCleanup(h)
  \/ UseSocketEffect
  \/ UseSocketCleanup
  \/ PollingEffect
  \/ PollingCleanup
  \/ SocketConnect
  \/ SocketDisconnect
  \/ ConnectError
  \/ \E r \in {"ok", "error"} : HealthResult(r)
  \/ RetryButton
  \/ \E i \in 1..MaxInFlight, r \in ListAnswers : ListResponds(i, r)
  \/ \E i \in 1..MaxInFlight, r \in OneStats \cup (StatsAnswers \ OkStats) : StatsResponds(i, r)
  \/ \E id \in {"a", "b"} : HandlePause(id)
  \/ \E i \in 1..MaxRequests, r \in CommandAnswers : CommandResponds(i, r)
  \/ PageReload

\* An authenticated session whose health checks, fetches, commands and push
\* channel can all fail.
SpecHealth == InitAuthed /\ [][NextHealth]_vars

\* While the health status is 'error' nothing but the retry screen is
\* rendered: once the commit's cleanups have run no Navbar, Dashboard or
\* SpeedGraph is mounted, no timer of theirs runs and none holds the socket.
C25_RetryScreen ==
  healthStatus = "error" =>
    /\ Rendered = {}
    /\ (ToUnmount = {} /\ DashSettled) =>
         (hooked = {} /\ acquired = {} /\ ~polling /\ sock.sharedSocket = Null)

\* Only a health check enters the state: no fetch failure, command failure or
\* push-channel error does.
C25_EnterStep ==
  (healthStatus # "error" /\ healthStatus' = "error") =>
     last'.op = "checkHealth"

\* C25 (as stated): once entered, only a page reload leaves the state.
C25_LeaveOnlyByReloadStep ==
  (healthStatus = "error" /\ healthStatus' # "error") => last'.op = "load"
C25_UnreachableAsStated ==
  [](C25_RetryScreen) /\ [][C25_EnterStep /\ C25_LeaveOnlyByReloadStep]_vars

\* C25 (amended): the state is left by a page reload or by a later health check
\* that succeeds, and by nothing else.
C25_LeaveStep ==
  (healthStatus = "error" /\ healthStatus' # "error") =>
     \/ last'.op = "load" /\ healthStatus' = "loading"
     \/ last'.op = "checkHealth" /\ healthStatus' = "ok"
C25_Unreachable ==
  [](C25_RetryScreen) /\ [][C25_EnterStep /\ C25_LeaveStep]_vars

\* a health check failed under a mounted Dashboard, and everything is unmounted
C25_Witness ==
  /\ healthStatus = "error"
  /\ isAuthenticated /\ currentPage = "dashboard"
  /\ hooked = {} /\ ToUnmount = {}
  /\ ~polling
  /\ fetches # <<>>
  /\ sock.sharedSocket = Null

-----------------------------------------------------------------------------
(* Properties of overlapping fetches *)

\* C26: the response of a fetch that was issued before one whose result is
\* already stored never overwrites that result: when such a fetch resolves
\* the collection and the stats stay as they are.
C26_IssueOrderStep ==
  (last'.op = "fetchData resolved" /\ last'.arg.live /\ last'.arg.overtaken) =>
     (torrents' = torrents /\ stats' = stats)
C26_IssueOrder == [][C26_IssueOrderStep]_vars

\* What holds instead: a fetch that resolves under the mounted Dashboard
\* stores its result whatever the order of issue.
C26_ArrivalOrderStep ==
  (last'.op = "fetchData resolved" /\ last'.arg.live) =>
     (torrents' = last'.arg.list.val /\ stats' = last'.arg.stats.val)
C26_ArrivalOrder == [][C26_ArrivalOrderStep]_vars

-----------------------------------------------------------------------------
(* Properties of the connection across login and logout *)

\* C27: the shared connection is open only while a token is stored: once the
\* effects of a commit have run with no token stored, no holder remains, the
\* reference count is 0 and there is no socket.
C27_ClosedWithoutToken ==
  (Settled /\ ~token) =>
     (acquired = {} /\ sock.socketRefCount = 0 /\ sock.sharedSocket = Null)

\* What holds instead: without a token the only holder left is the Navbar,
\* and the Dashboard and the SpeedGraph hold nothing.
C27_OnlyNavbarLeft ==
  (Settled /\ ~token) => (acquired \subseteq {"navbar"} /\ sock.socketRefCount <= 1)

\* React runs the cleanups and the effects of a commit, and the effect of
\* useConnectionStatus after a render that changed isConnected. Nothing is
\* assumed of the network or of the user.
EffectsRun ==
  /\ \A h \in SpeedHolders :
       WF_vars(UseSpeedSocketEffect(h)) /\ WF_vars(UseSpeedSocketCleanup(h))
  /\ WF_vars(UseSocketEffect)
  /\ WF_vars(UseSocketCleanup)
  /\ WF_vars(ConnectionStatusEffect)

\* The connection manager and the component tree, with the effects of every
\* commit run.
SpecLive == Init /\ [][Next]_vars /\ EffectsRun

\* the Navbar's indicator shows the connected state
ShowsConnected == "navbar" \in hooked /\ isConnected["navbar"]

\* C28: whenever the user is logged in, the Navbar is mounted and the socket
\* is connected, the Navbar's indicator comes to show the connected state,
\* unless the connection is lost or the Navbar unmounted before.
C28_NavbarConnects ==
  (Settled /\ isAuthenticated /\ "navbar" \in hooked /\ ActuallyConnected)
    ~> (ShowsConnected \/ ~ActuallyConnected \/ "navbar" \notin hooked)

\* What holds instead: the same of a Navbar that acquired the connection
\* when it mounted.
C28_SubscribedNavbarConnects ==
  (Settled /\ isAuthenticated /\ "navbar" \in acquired /\ ActuallyConnected)
    ~> (ShowsConnected \/ ~ActuallyConnected \/ "navbar" \notin hooked)

-----------------------------------------------------------------------------
(* Properties of the tab counts *)

\* the rows the tab f displays when the search box is empty
RowsOf(f) == derive(torrents, f, <<>>, sortField, sortDir).result

\* C29: for every tab the count on the tab is the number of rows the tab
\* displays when the search box is empty.
C29_TabCounts ==
  \A f \in StatusFilters : statusCounts(torrents)[f] = Len(RowsOf(f))

\* What holds instead: the 'all' count is the size of the collection, the
\* count of 'completed' is the number of its rows, each entry is counted
\* under at most one of the five status tabs, and no tab counts more than it
\* displays.
C29_CountedOnce ==
  LET counts == statusCounts(torrents) IN
  /\ counts["all"] = Len(torrents) /\ Len(RowsOf("all")) = Len(torrents)
  /\ counts["completed"] = Len(RowsOf("completed"))
  /\ counts["downloading"] + counts["seeding"] + counts["paused"]
       + counts["completed"] + counts["error"] <= Len(torrents)
  /\ \A f \in StatusFilters : counts[f] <= Len(RowsOf(f))

====
